---- MODULE Spec2Model ----
(***************************************************************************)
(* Model of create_assignment_prs.py (class AssignmentPRCreator).          *)
(*                                                                         *)
(* Strings of the program are sequences of one-character strings, so that  *)
(* sanitize_branch_name and the parsing of git's output are computed as    *)
(* the code computes them.  The remote repository (branches, pull          *)
(* requests) persists across runs; everything else is rebuilt by each run  *)
(* from a fresh checkout of the default branch.                            *)
(***************************************************************************)
EXTENDS Integers, Sequences, FiniteSets, TLC

\* ------------------------------------------------------------------ bounds
\* longest list of discovered assignments
MaxAssignments == 2
\* number of consecutive runs of the tool against the same remote
MaxRuns == 2
\* longest path given to sanitize_branch_name on its own
MaxPathLen == 4
\* longest content of an existing README.md given to create_readme on its own
MaxContentLen == 4
\* largest number of directories in the workspace given to find_assignments
MaxDirs == 3

\* ----------------------------------------------------------------- strings
WS == {" ", "\t"}

UPPER == <<"A", "B", "C", "D", "E", "F", "G", "H", "I", "J", "K", "L", "M",
           "N", "O", "P", "Q", "R", "S", "T", "U", "V", "W", "X", "Y", "Z">>

LOWER == <<"a", "b", "c", "d", "e", "f", "g", "h", "i", "j", "k", "l", "m",
           "n", "o", "p", "q", "r", "s", "t", "u", "v", "w", "x", "y", "z">>

\* str.lower() on one character
LowerChar(c) ==
    IF \E k \in 1..Len(UPPER) : UPPER[k] = c
    THEN LOWER[CHOOSE k \in 1..Len(UPPER) : UPPER[k] = c]
    ELSE c

\* str.lower()
Lower(s) == [k \in 1..Len(s) |-> LowerChar(s[k])]

RECURSIVE LStrip(_, _)
\* str.lstrip(chars)
LStrip(s, chars) ==
    IF s = <<>> THEN <<>>
    ELSE IF Head(s) \in chars THEN LStrip(Tail(s), chars)
    ELSE s

RECURSIVE RStrip(_, _)
\* str.rstrip(chars)
RStrip(s, chars) ==
    IF s = <<>> THEN <<>>
    ELSE IF s[Len(s)] \in chars THEN RStrip(SubSeq(s, 1, Len(s) - 1), chars)
    ELSE s

\* str.strip(chars)
Strip(s, chars) == RStrip(LStrip(s, chars), chars)

RECURSIVE SubRuns(_, _, _)
\* re.sub(r"[chars]+", rep, s): every maximal run of chars becomes one rep
SubRuns(s, chars, rep) ==
    IF s = <<>> THEN <<>>
    ELSE IF Head(s) \in chars
         THEN <<rep>> \o SubRuns(LStrip(s, chars), chars, rep)
         ELSE <<Head(s)>> \o SubRuns(Tail(s), chars, rep)

\* str.replace(a, b) for one-character a and b
ReplaceChar(s, a, b) == [k \in 1..Len(s) |-> IF s[k] = a THEN b ELSE s[k]]

\* sanitize_branch_name with the hyphens trimmed before the slashes are replaced
sanitize_branch_name_TrimFirst(assignment_path) ==
    LET s1 == Strip(assignment_path, WS)
        s2 == SubRuns(s1, WS, "-")
        s3 == Strip(s2, {"-"})
        s4 == ReplaceChar(s3, "/", "-")
        s5 == SubRuns(s4, {"-"}, "-")
    IN  Lower(s5)

\* sanitize_branch_name with the hyphen runs collapsed before the slashes
\* are replaced
sanitize_branch_name_CollapseFirst(assignment_path) ==
    LET s1 == Strip(assignment_path, WS)
        s2 == SubRuns(s1, WS, "-")
        s3 == SubRuns(s2, {"-"}, "-")
        s4 == ReplaceChar(s3, "/", "-")
        s5 == Lower(s4)
    IN  Strip(s5, {"-"})

\* AssignmentPRCreator.sanitize_branch_name
sanitize_branch_name(assignment_path) ==
    LET s1 == Strip(assignment_path, WS)
        s2 == SubRuns(s1, WS, "-")
        s3 == ReplaceChar(s2, "/", "-")
        s4 == SubRuns(s3, {"-"}, "-")
        s5 == Lower(s4)
    IN  Strip(s5, {"-"})

\* str.startswith
StartsWith(s, prefix) ==
    Len(s) >= Len(prefix) /\ SubSeq(s, 1, Len(prefix)) = prefix

\* str.endswith
EndsWith(s, suffix) ==
    Len(s) >= Len(suffix)
    /\ SubSeq(s, Len(s) - Len(suffix) + 1, Len(s)) = suffix

\* the elements of a sequence
Range(s) == {s[k] : k \in 1..Len(s)}

\* the decimal digits, for str(n)
DIGITS == <<"0", "1", "2", "3", "4", "5", "6", "7", "8", "9">>

RECURSIVE Join(_, _)
\* sep.join(parts)
Join(parts, sep) ==
    IF parts = <<>> THEN <<>>
    ELSE IF Len(parts) = 1 THEN parts[1]
    ELSE parts[1] \o sep \o Join(Tail(parts), sep)

\* ------------------------------------------------------------- the scanner
\* directory names
DirAssignments ==
    <<"a", "s", "s", "i", "g", "n", "m", "e", "n", "t", "s">>

DirWeek3 ==
    <<"w", "e", "e", "k", "-", "3">>

DirAssignment1 ==
    <<"a", "s", "s", "i", "g", "n", "m", "e", "n", "t", "-", "1">>

DirAssignment2 ==
    <<"a", "s", "s", "i", "g", "n", "m", "e", "n", "t", "-", "2">>

DirAssignment3 ==
    <<"a", "s", "s", "i", "g", "n", "m", "e", "n", "t", "-", "3">>

\* the names of the directories made in the workspace
DirNames == {DirAssignments, DirWeek3, DirAssignment3}

\* every directory name of the model
AllDirNames == DirNames \cup {DirAssignment1, DirAssignment2}

\* 'assignment-', the literal part of the default ASSIGNMENT_REGEX
AssignmentPrefix ==
    <<"a", "s", "s", "i", "g", "n", "m", "e", "n", "t", "-">>

\* re.match of the default ASSIGNMENTS_ROOT_REGEX '^assignments$'
MatchesDefaultRoot(name) == name = DirAssignments

\* re.match of the default ASSIGNMENT_REGEX '^assignment-\d+$'
MatchesDefaultAssignment(name) ==
    /\ StartsWith(name, AssignmentPrefix)
    /\ Len(name) > Len(AssignmentPrefix)
    /\ \A k \in (Len(AssignmentPrefix) + 1)..Len(name) : name[k] \in Range(DIGITS)

\* a compiled pattern is modelled by the set of directory names it matches
DefaultRootPattern == {n \in AllDirNames : MatchesDefaultRoot(n)}

DefaultAssignmentPattern == {n \in AllDirNames : MatchesDefaultAssignment(n)}

\* the orders in which the file system can list directory names
Orders ==
    {o \in [1..Cardinality(AllDirNames) -> AllDirNames] :
        \A a, b \in DOMAIN o : a # b => o[a] # o[b]}

\* a workspace is the set of its directories, each the sequence of names
\* that leads to it from the workspace root <<>>;
\* the subdirectories of dir in the order of the listing
ListDirs(tree, dir, order) ==
    SelectSeq([k \in 1..Len(order) |-> Append(dir, order[k])],
              LAMBDA d : d \in tree)

RECURSIVE Walk(_, _, _)
RECURSIVE WalkEach(_, _, _)
\* os.walk(top), top-down: top, then the walk of each of its subdirectories
Walk(tree, top, order) ==
    <<top>> \o WalkEach(tree, ListDirs(tree, top, order), order)

\* the walks of the directories dirs, one after the other
WalkEach(tree, dirs, order) ==
    IF dirs = <<>> THEN <<>>
    ELSE Walk(tree, Head(dirs), order) \o WalkEach(tree, Tail(dirs), order)

\* Path.name
Basename(dir) == dir[Len(dir)]

\* the name of the directory in place of its path from the workspace root
RelativePath_Basename(dir) == Basename(dir)

\* str(path.relative_to(workspace_root))
RelativePath(dir) == Join(dir, <<"/">>)

\* find_assignments without the test that skips the root directory itself
find_assignments_IncludeRoot(tree, roots, assigns, order) ==
    LET found_under(assignments_root) ==
            LET hits == SelectSeq(Walk(tree, assignments_root, order),
                                  LAMBDA d : Basename(d) \in assigns)
            IN  [k \in 1..Len(hits) |-> RelativePath(hits[k])]
        in_dir(root) ==
            LET matching == SelectSeq(ListDirs(tree, root, order),
                                      LAMBDA d : Basename(d) \in roots)
            IN  Join([k \in 1..Len(matching) |-> found_under(matching[k])], <<>>)
        outer == Walk(tree, <<>>, order)
    IN  Join([k \in 1..Len(outer) |-> in_dir(outer[k])], <<>>)

\* find_assignments that looks only at the directories directly inside a root
find_assignments_DirectChildren(tree, roots, assigns, order) ==
    LET found_under(assignments_root) ==
            LET hits == SelectSeq(ListDirs(tree, assignments_root, order),
                                  LAMBDA d : Basename(d) \in assigns)
            IN  [k \in 1..Len(hits) |-> RelativePath(hits[k])]
        in_dir(root) ==
            LET matching == SelectSeq(ListDirs(tree, root, order),
                                      LAMBDA d : Basename(d) \in roots)
            IN  Join([k \in 1..Len(matching) |-> found_under(matching[k])], <<>>)
        outer == Walk(tree, <<>>, order)
    IN  Join([k \in 1..Len(outer) |-> in_dir(outer[k])], <<>>)

RECURSIVE Deduplicated(_)
\* the list without the repetitions of an element
Deduplicated(list) ==
    IF list = <<>> THEN <<>>
    ELSE LET front == Deduplicated(SubSeq(list, 1, Len(list) - 1))
             last == list[Len(list)]
         IN  IF last \in Range(front) THEN front ELSE Append(front, last)

\* find_assignments that returns every directory once
find_assignments_Deduplicated(tree, roots, assigns, order) ==
    LET found_under(assignments_root) ==
            LET hits == SelectSeq(Walk(tree, assignments_root, order),
                                  LAMBDA d : /\ Basename(d) \in assigns
                                             /\ d # assignments_root)
            IN  [k \in 1..Len(hits) |-> RelativePath(hits[k])]
        in_dir(root) ==
            LET matching == SelectSeq(ListDirs(tree, root, order),
                                      LAMBDA d : Basename(d) \in roots)
            IN  Join([k \in 1..Len(matching) |-> found_under(matching[k])], <<>>)
        outer == Walk(tree, <<>>, order)
    IN  Deduplicated(Join([k \in 1..Len(outer) |-> in_dir(outer[k])], <<>>))

\* find_assignments without the test of the root pattern: every directory
\* is taken for a root
find_assignments_NoRootTest(tree, roots, assigns, order) ==
    LET found_under(assignments_root) ==
            LET hits == SelectSeq(Walk(tree, assignments_root, order),
                                  LAMBDA d : /\ Basename(d) \in assigns
                                             /\ d # assignments_root)
            IN  [k \in 1..Len(hits) |-> RelativePath(hits[k])]
        in_dir(root) ==
            LET matching == ListDirs(tree, root, order)
            IN  Join([k \in 1..Len(matching) |-> found_under(matching[k])], <<>>)
        outer == Walk(tree, <<>>, order)
    IN  Join([k \in 1..Len(outer) |-> in_dir(outer[k])], <<>>)

\* AssignmentPRCreator.find_assignments, lines 458-487: for every directory
\* of the outer walk and every subdirectory of it that matches the root
\* pattern, the inner walk of that subdirectory; every directory of the inner
\* walk, other than the root itself, that matches the assignment pattern is
\* appended as its path relative to the workspace root
find_assignments(tree, roots, assigns, order) ==
    LET found_under(assignments_root) ==
            LET hits == SelectSeq(Walk(tree, assignments_root, order),
                                  LAMBDA d : /\ Basename(d) \in assigns
                                             /\ d # assignments_root)
            IN  [k \in 1..Len(hits) |-> RelativePath(hits[k])]
        in_dir(root) ==
            LET matching == SelectSeq(ListDirs(tree, root, order),
                                      LAMBDA d : Basename(d) \in roots)
            IN  Join([k \in 1..Len(matching) |-> found_under(matching[k])], <<>>)
        outer == Walk(tree, <<>>, order)
    IN  Join([k \in 1..Len(outer) |-> in_dir(outer[k])], <<>>)

\* find_assignments has not been called
NotScanned == [done |-> FALSE, paths |-> <<>>]

\* the workspace of the first scenario: assignments/assignment-1/
ScenarioTree == {<<DirAssignments>>, <<DirAssignments, DirAssignment1>>}

\* what find_assignments returns for it under the default patterns
ScenarioLists ==
    {find_assignments(ScenarioTree, DefaultRootPattern,
                      DefaultAssignmentPattern, order) : order \in Orders}

\* the workspace of the scenarios with two assignments:
\* assignments/assignment-1/ and assignments/assignment-2/
MixedTree ==
    {<<DirAssignments>>, <<DirAssignments, DirAssignment1>>,
     <<DirAssignments, DirAssignment2>>}

\* the paths find_assignments returns for it under the default patterns
MixedPaths ==
    UNION {Range(find_assignments(MixedTree, DefaultRootPattern,
                                  DefaultAssignmentPattern, order)) :
              order \in Orders}

\* the directories a workspace of at most MaxDirs directories can hold
ScanDirs == UNION {[1..n -> DirNames] : n \in 1..MaxDirs}

\* the paths find_assignments can return for such a workspace under the
\* default patterns: a directory named assignment-<digits> with a proper
\* ancestor named assignments
ScanPaths ==
    {RelativePath(d) : d \in {e \in ScanDirs :
        /\ Basename(e) \in DefaultAssignmentPattern
        /\ \E k \in 1..(Len(e) - 1) : e[k] \in DefaultRootPattern}}

\* -------------------------------------------------------------- the inputs
\* DEFAULT_BRANCH (default "main")
default_branch == <<"m", "a", "i", "n">>

\* three assignment paths; PathB3 sanitizes to the branch name of PathA1
PathA1 == <<"r", "/", "a", "1">>
PathA2 == <<"r", "/", "a", "2">>
PathB3 == <<"R", " ", "/", "a", "1">>

Paths == {PathA1, PathA2, PathB3}

\* the paths of the first scenario, as find_assignments returns them
ScenarioPaths == UNION {Range(list) : list \in ScenarioLists}

\* the assignment paths of the runs over a given list of assignments
RunPaths == Paths \cup ScenarioPaths

\* every assignment path of the model
AllPaths == RunPaths \cup ScanPaths \cup MixedPaths

\* the branch names of the three assignment paths
MainNames == {sanitize_branch_name(p) : p \in Paths}

\* the branch names of the first scenario
ScenarioNames == {sanitize_branch_name(p) : p \in ScenarioPaths}

\* the branch names of the paths of a scanned workspace
ScanNames == {sanitize_branch_name(p) : p \in ScanPaths}

\* the branch names of the scenarios with two assignments
MixedNames == {sanitize_branch_name(p) : p \in MixedPaths}

\* the branch names of the runs over a given list of assignments
RunNames == MainNames \cup ScenarioNames

\* the lists find_assignments can return (an entry may repeat)
AssignmentLists == UNION {[1..n -> Paths] : n \in 0..MaxAssignments}

\* lifecycle of a pull request on the remote; "none": no pull request
PRStates == {"open", "closed", "merged"}

NoPR == "none"

\* a branch found on the remote is level with the default branch or ahead of it
InitialAhead == {0, 1}

\* "origin/", the prefix git puts before the name of a remote branch
ORIGIN == <<"o", "r", "i", "g", "i", "n", "/">>

\* the line by which `git branch -r` lists the remote HEAD pointer
HeadPointerLine ==
    <<" ", " ">> \o ORIGIN \o <<"H", "E", "A", "D", " ", "-", ">", " ">>
        \o ORIGIN \o default_branch

RECURSIVE RemoveSub(_, _)
\* str.replace(pat, ''): leftmost occurrences of pat, not overlapping
RemoveSub(s, pat) ==
    IF Len(s) < Len(pat) THEN s
    ELSE IF SubSeq(s, 1, Len(pat)) = pat
         THEN RemoveSub(SubSeq(s, Len(pat) + 1, Len(s)), pat)
         ELSE <<Head(s)>> \o RemoveSub(Tail(s), pat)

RECURSIVE SetToSeq(_)
\* the elements of a finite set in some fixed order (the order of git's listing)
SetToSeq(S) ==
    IF S = {} THEN <<>>
    ELSE LET x == CHOOSE y \in S : TRUE
         IN  <<x>> \o SetToSeq(S \ {x})

\* ------------------------------------------------------------------- state
VARIABLES
    github_token,         \* the environment variable GITHUB_TOKEN
    repository_name,      \* the environment variable GITHUB_REPOSITORY
    dry_run,              \* self.dry_run
    assignments,          \* what find_assignments returns in every run
    remote_branches,      \* branches of origin other than the default branch
    remote_ahead,         \* commits each remote branch is ahead of the default
    remote_prs,           \* head branch -> state of its pull request, or NoPR
    pr_count,             \* number of the last pull request of the repository
    local_branches,       \* branches of the local repository
    local_ahead,          \* commits each local branch is ahead of the default
    local_commits,        \* those commits, oldest first: the assignment path a
                          \* commit of this run was made for, <<>> for a commit
                          \* fetched from the remote
    current_branch,       \* the branch checked out locally
    existing_branches,    \* process_assignments: snapshot of the branch set
    existing_prs,         \* process_assignments: snapshot of the PR history
    branches_to_process,  \* process_assignments: (path, branch) pairs for phase 4
    created_branches,     \* self.created_branches
    created_pull_requests,\* self.created_pull_requests
    pending_pushes,       \* self.pending_pushes
    pc,                   \* where the run is
    i,                    \* phase 2: index of the assignment being processed
    j,                    \* phase 4: index into branches_to_process
    cmd_log,              \* subprocesses, API calls and file writes executed
    calls,                \* operations of the class invoked, in order
    outputs,              \* the lines set_outputs appended to GITHUB_OUTPUT
    exit_code,            \* exit status of the process: "none", "0" or "1"
    run,                  \* number of the current run
    prev_run,             \* the run before this one: its exit status and
                          \* what it reported as created
    path_in,              \* sanitize_branch_name: the argument assignment_path
    names_out,            \* sanitize_branch_name: the results of its successive
                          \* applications, each to the result before it
    existing_content,     \* create_readme: README.md before the call, or NoFile
    written_content,      \* create_readme: what README.md holds after the call
    workspace_tree,       \* find_assignments: the directories of the workspace
    root_pattern,         \* find_assignments: the names root_pattern matches
    assignment_pattern,   \* find_assignments: the names assignment_pattern matches
    found,                \* find_assignments: the list returned, or NotScanned
    other                 \* a second run of the tool against the same remote,
                          \* while it is not the one taking a step, or NoRun

configVars == <<github_token, repository_name, dry_run, assignments>>

remoteVars == <<remote_branches, remote_ahead, remote_prs, pr_count>>

gitVars == <<local_branches, local_ahead, local_commits, current_branch>>

snapshotVars == <<existing_branches, existing_prs>>

accVars == <<created_branches, created_pull_requests, pending_pushes>>

runVars == <<run, prev_run>>

\* the state of a run of the tool
programVars ==
    <<configVars, remoteVars, gitVars, snapshotVars, accVars, runVars,
      branches_to_process, pc, i, j, cmd_log, calls, outputs, exit_code>>

namerVars == <<path_in, names_out>>

readmeVars == <<existing_content, written_content>>

scannerVars == <<workspace_tree, root_pattern, assignment_pattern, found>>

raceVars == <<other>>

\* the state of the functions exercised on their own and of the second run
unitVars == <<namerVars, readmeVars, scannerVars, raceVars>>

vars == <<programVars, unitVars>>

\* the branch names the repository can have: those of the assignments
Names == DOMAIN remote_prs

\* a command: a git subprocess, a GitHub API call or a file write
Command(cmd, arg) == [cmd |-> cmd, arg |-> arg]

\* an entry of cmd_log: the command executed and whether it succeeded
Executed(command, ok) == [cmd |-> command.cmd, arg |-> command.arg, ok |-> ok]

\* one invocation of an operation of AssignmentPRCreator
Call(op, path, branch) == [op |-> op, path |-> path, branch |-> branch]

\* run_git_command without the dry-run guard
run_git_command_NoDryRun(command, ok) ==
    IF ok THEN [res |-> "true", log |-> <<Executed(command, TRUE)>>]
    ELSE [res |-> "exit", log |-> <<Executed(command, FALSE)>>]

\* run_git_command that reports a failed command by returning False
run_git_command_ReturnsFalse(command, ok) ==
    IF dry_run THEN [res |-> "true", log |-> <<>>]
    ELSE IF ok THEN [res |-> "true", log |-> <<Executed(command, TRUE)>>]
    ELSE [res |-> "false", log |-> <<Executed(command, FALSE)>>]

\* run_git_command that runs a failed command a second time
run_git_command_Retry(command, ok) ==
    IF dry_run THEN [res |-> "true", log |-> <<>>]
    ELSE IF ok THEN [res |-> "true", log |-> <<Executed(command, TRUE)>>]
    ELSE [res |-> "true",
          log |-> <<Executed(command, FALSE), Executed(command, TRUE)>>]

\* AssignmentPRCreator.run_git_command; ok: the subprocess exits with status 0
run_git_command(command, ok) ==
    IF dry_run THEN [res |-> "true", log |-> <<>>]
    ELSE IF ok THEN [res |-> "true", log |-> <<Executed(command, TRUE)>>]
    ELSE [res |-> "exit", log |-> <<Executed(command, FALSE)>>]

\* AssignmentPRCreator.run_git_command_with_output
run_git_command_with_output(command, ok) ==
    IF dry_run THEN [res |-> "true", log |-> <<>>]
    ELSE IF ok THEN [res |-> "true", log |-> <<Executed(command, TRUE)>>]
    ELSE [res |-> "exit", log |-> <<Executed(command, FALSE)>>]

\* a command to run: out: through run_git_command_with_output;
\* chk: the caller returns False when run_git_command returns False
Step(cmd, arg, ok, chk, out) ==
    [c |-> Command(cmd, arg), ok |-> ok, chk |-> chk, out |-> out]

RECURSIVE RunCommands(_, _)
\* the commands steps[k..] run in order until one ends the caller:
\* res: "true" (all ran), "false" (the caller returns False) or "exit"
\* (sys.exit(1)); log: the commands executed; done: the indices of the
\* commands that were executed and succeeded
RunCommands(steps, k) ==
    IF k > Len(steps) THEN [res |-> "true", log |-> <<>>, done |-> {}]
    ELSE LET r == IF steps[k].out
                  THEN run_git_command_with_output(steps[k].c, steps[k].ok)
                  ELSE run_git_command(steps[k].c, steps[k].ok)
         IN  IF r.res = "exit"
             THEN [res |-> "exit", log |-> r.log, done |-> {}]
             ELSE IF r.res = "false" /\ steps[k].chk
             THEN [res |-> "false", log |-> r.log, done |-> {}]
             ELSE LET rest == RunCommands(steps, k + 1)
                  IN  [res  |-> rest.res,
                       log  |-> r.log \o rest.log,
                       done |-> (IF r.res = "true" /\ r.log # <<>>
                                 THEN {k} ELSE {}) \cup rest.done]

\* a GitHub API call whose GithubException is swallowed
github_call_Swallow(command, ok) ==
    [res |-> "true", log |-> <<Executed(command, ok)>>]

\* a GitHub API call inside try / except GithubException: sys.exit(1);
\* ok: the call returns
github_call(command, ok) ==
    IF ok THEN [res |-> "true", log |-> <<Executed(command, TRUE)>>]
    ELSE [res |-> "exit", log |-> <<Executed(command, FALSE)>>]

\* pr.state as the API reports it: a merged pull request is "closed"
PrState(state) == IF state = "merged" THEN "closed" ELSE state

\* repo.create_pull raises GithubException (422) when the head branch is not
\* on the remote, has no commit ahead of the base, or has an open pull request
GitHubAcceptsPull(head) ==
    /\ head \in remote_branches
    /\ remote_ahead[head] > 0
    /\ remote_prs[head] # "open"

\* the PR history keyed by pr.base.ref instead of pr.head.ref
PullRequestHistory_ByBase(prs) ==
    [h \in {default_branch : n \in {m \in Names : prs[m] # NoPR}} |-> "open"]

\* get_existing_pull_requests, line 594: head branch -> state, over the pull
\* requests of every state
PullRequestHistory(prs) ==
    [h \in {n \in Names : prs[n] # NoPR} |-> PrState(prs[h])]

\* git accepts a branch name without whitespace and without '>'
ValidRefName(name) ==
    name # <<>> /\ \A k \in 1..Len(name) : name[k] \notin WS \cup {">"}

\* the output of `git branch -r`, line by line; head_listed: the checkout has
\* the remote HEAD pointer origin/HEAD
GitBranchROutput(head_listed) ==
    (IF head_listed THEN <<HeadPointerLine>> ELSE <<>>)
    \o <<(<<" ", " ">> \o ORIGIN \o default_branch)>>
    \o [k \in 1..Cardinality(remote_branches) |->
            <<" ", " ">> \o ORIGIN \o SetToSeq(remote_branches)[k]]

\* fetch_all_remote_branches: the branch names it checks out, from the lines
\* of `git branch -r`
TrackingNames(lines) ==
    LET stripped == [k \in 1..Len(lines) |-> Strip(lines[k], WS)]
        keep(l) == /\ l # <<>>
                   /\ ~EndsWith(l, <<"/", "H", "E", "A", "D">>)
                   /\ StartsWith(l, ORIGIN)
                   /\ RemoveSub(l, ORIGIN) # default_branch
        kept == SelectSeq(stripped, keep)
    IN  [k \in 1..Len(kept) |-> RemoveSub(kept[k], ORIGIN)]

\* the output of `git branch`, line by line
GitBranchOutput ==
    [k \in 1..Cardinality(local_branches) |->
        LET b == SetToSeq(local_branches)[k]
        IN  (IF b = current_branch THEN <<"*", " ">> ELSE <<" ", " ">>) \o b]

\* get_existing_branches: the branch names parsed from the lines of `git branch`
ParseBranches(lines) ==
    LET name(l) == Strip(RemoveSub(Strip(l, WS), <<"*", " ">>), WS)
    IN  {name(lines[k]) : k \in {m \in 1..Len(lines) :
                                   Strip(lines[m], WS) # <<>>
                                   /\ name(lines[m]) # <<>>}}

\* ------------------------------------------------------------- the outputs
RECURSIVE Str(_)
\* str(n) of a natural number
Str(n) ==
    IF n < 10 THEN <<DIGITS[n + 1]>>
    ELSE Str(n \div 10) \o <<DIGITS[(n % 10) + 1]>>

\* create_pull_request, lines 422 and 435: f"#{pr.number}"
PrId(number) == <<"#">> \o Str(number)

\* json.dumps of one character of a string
JsonChar(c) == IF c \in {"\"", "\\"} THEN <<"\\", c>> ELSE <<c>>

\* json.dumps of a string
JsonString(str) ==
    <<"\"">> \o Join([k \in 1..Len(str) |-> JsonChar(str[k])], <<>>) \o <<"\"">>

\* json.dumps of a list of strings: ["a", "b"]
json_dumps(list) ==
    <<"[">> \o Join([k \in 1..Len(list) |-> JsonString(list[k])], <<",", " ">>)
            \o <<"]">>

\* set_outputs, line 749: the key of the first line
CreatedBranchesKey ==
    <<"c", "r", "e", "a", "t", "e", "d", "-", "b", "r", "a", "n", "c", "h",
      "e", "s", "=">>

\* set_outputs, line 752: the key of the second line
CreatedPullRequestsKey ==
    <<"c", "r", "e", "a", "t", "e", "d", "-", "p", "u", "l", "l", "-", "r",
      "e", "q", "u", "e", "s", "t", "s", "=">>

\* set_outputs that writes the two lists under each other's key
set_outputs_Swapped(branches, pull_requests) ==
    <<CreatedBranchesKey \o json_dumps(pull_requests) \o <<"\n">>,
      CreatedPullRequestsKey \o json_dumps(branches) \o <<"\n">>>>

\* set_outputs, lines 746-754: the lines appended to the file GITHUB_OUTPUT
set_outputs(branches, pull_requests) ==
    <<CreatedBranchesKey \o json_dumps(branches) \o <<"\n">>,
      CreatedPullRequestsKey \o json_dumps(pull_requests) \o <<"\n">>>>

\* -------------------------------------------------------------- the README
\* what str.strip() and str.rstrip() without argument remove
WHITESPACE == {" ", "\t", "\n", "\r"}

\* str.upper() on one character
UpperChar(c) ==
    IF \E k \in 1..Len(LOWER) : LOWER[k] = c
    THEN UPPER[CHOOSE k \in 1..Len(LOWER) : LOWER[k] = c]
    ELSE c

\* the character is a letter
IsLetter(c) == c \in Range(UPPER) \cup Range(LOWER)

\* str.title(): a letter that follows no letter is made uppercase, every other
\* letter lowercase
Title(s) ==
    [k \in 1..Len(s) |->
        IF ~IsLetter(s[k]) THEN s[k]
        ELSE IF k = 1 \/ ~IsLetter(s[k - 1]) THEN UpperChar(s[k])
        ELSE LowerChar(s[k])]

\* str.replace(a, rep) for a one-character a
Replace(s, a, rep) ==
    Join([k \in 1..Len(s) |-> IF s[k] = a THEN rep ELSE <<s[k]>>], <<>>)

\* create_readme, line 271, and create_pull_request, line 391:
\* assignment_path.replace("/", " - ").title()
assignment_title(assignment_path) ==
    Title(Replace(assignment_path, "/", <<" ", "-", " ">>))

\* the grave accent (U+0060) that encloses the path in the README; the
\* character cannot be written inside a TLA+ string
BACKTICK == "U+0060"

\* create_readme, lines 288-293: the footer appended to an existing README
augmentation_comment ==
    <<"\n", "\n", "-", "-", "-", "\n", "\n", "*", "T", "h", "i", "s", " ",
      "R", "E", "A", "D", "M", "E", " ", "w", "a", "s", " ", "a", "u", "g",
      "m", "e", "n", "t", "e", "d", " ", "b", "y", " ", "t", "h", "e", " ",
      "A", "s", "s", "i", "g", "n", "m", "e", "n", "t", " ", "P", "u", "l",
      "l", " ", "R", "e", "q", "u", "e", "s", "t", " ", "C", "r", "e", "a",
      "t", "o", "r", " ", "a", "c", "t", "i", "o", "n", ".", "*", "\n">>

\* create_readme, lines 307-323: the new README up to the title
ReadmeHead ==
    <<"#", " ">>

\* create_readme, lines 307-323: the new README between the title and the path
ReadmeMiddle ==
    <<"\n", "\n", "T", "h", "i", "s", " ", "i", "s", " ", "t", "h", "e", " ",
      "R", "E", "A", "D", "M", "E", " ", "f", "o", "r", " ", "t", "h", "e",
      " ", "a", "s", "s", "i", "g", "n", "m", "e", "n", "t", " ", "l", "o",
      "c", "a", "t", "e", "d", " ", "a", "t", " ", BACKTICK>>

\* create_readme, lines 307-323: the new README after the path
ReadmeTail ==
    <<BACKTICK, ".", "\n", "\n", "#", "#", " ", "I", "n", "s", "t", "r", "u", "c",
      "t", "i", "o", "n", "s", "\n", "\n", "P", "l", "e", "a", "s", "e", " ",
      "a", "d", "d", " ", "y", "o", "u", "r", " ", "a", "s", "s", "i", "g",
      "n", "m", "e", "n", "t", " ", "i", "n", "s", "t", "r", "u", "c", "t",
      "i", "o", "n", "s", " ", "a", "n", "d", " ", "r", "e", "q", "u", "i",
      "r", "e", "m", "e", "n", "t", "s", " ", "h", "e", "r", "e", ".", "\n",
      "\n", "#", "#", " ", "S", "u", "b", "m", "i", "s", "s", "i", "o", "n",
      "\n", "\n", "P", "l", "e", "a", "s", "e", " ", "a", "d", "d", " ", "y",
      "o", "u", "r", " ", "s", "u", "b", "m", "i", "s", "s", "i", "o", "n",
      " ", "g", "u", "i", "d", "e", "l", "i", "n", "e", "s", " ", "h", "e",
      "r", "e", ".", "\n", "\n", "-", "-", "-", "\n", "\n", "*", "T", "h",
      "i", "s", " ", "R", "E", "A", "D", "M", "E", " ", "w", "a", "s", " ",
      "a", "u", "t", "o", "m", "a", "t", "i", "c", "a", "l", "l", "y", " ",
      "g", "e", "n", "e", "r", "a", "t", "e", "d", " ", "b", "y", " ", "t",
      "h", "e", " ", "A", "s", "s", "i", "g", "n", "m", "e", "n", "t", " ",
      "P", "u", "l", "l", " ", "R", "e", "q", "u", "e", "s", "t", "*", "\n",
      "*", "C", "r", "e", "a", "t", "o", "r", " ", "a", "c", "t", "i", "o",
      "n", ".", "*", "\n">>

\* a README.md that does not exist
NoFile == [exists |-> FALSE, text |-> <<>>]

\* 'Assignment: ', the fixed part of the title of a pull request
TitlePrefix ==
    <<"A", "s", "s", "i", "g", "n", "m", "e", "n", "t", ":", " ">>

\* create_pull_request, line 391: the title of the pull request
pull_request_title(assignment_path) ==
    TitlePrefix \o assignment_title(assignment_path)

\* create_readme, lines 280-327: the content written to README.md
readme_text(existing, assignment_path) ==
    IF existing.exists
    THEN RStrip(existing.text, WHITESPACE) \o augmentation_comment
    ELSE ReadmeHead \o assignment_title(assignment_path) \o ReadmeMiddle
             \o assignment_path \o ReadmeTail

\* ---------------------------------------------------------------- the runs
\* os.environ.get of a required variable: not set, set to "", or set
Unset == [set |-> FALSE, value |-> <<>>]

EnvValues == {Unset, [set |-> TRUE, value |-> <<>>], [set |-> TRUE, value |-> <<"x">>]}

\* a test `is not None` in place of the truth test
Truthy_IsNotNone(value) == value.set

\* __init__, lines 102 and 104: `if not self.github_token`
Truthy(value) == value.set /\ value.value # <<>>

\* both required variables are set and not empty
ConfigOk == Truthy(github_token) /\ Truthy(repository_name)

\* sanitize_branch_name is not being exercised on its own
NamerIdle == path_in = <<>> /\ names_out = <<>>

\* the README content of create_readme is not being exercised on its own
ReadmeIdle == existing_content = NoFile /\ written_content = <<>>

\* find_assignments is not being exercised on its own
ScannerIdle ==
    /\ workspace_tree = {}
    /\ root_pattern = {}
    /\ assignment_pattern = {}
    /\ found = NotScanned

\* no second run of the tool is in progress
NoRun == [pc |-> "none"]

RaceIdle == other = NoRun

Init ==
    /\ NamerIdle
    /\ ReadmeIdle
    /\ ScannerIdle
    /\ RaceIdle
    /\ github_token \in EnvValues
    /\ repository_name \in EnvValues
    /\ dry_run \in BOOLEAN
    /\ \E play \in {MainNames, ScenarioNames} :
          /\ assignments \in (IF play = MainNames THEN AssignmentLists
                              ELSE ScenarioLists)
          /\ remote_branches \in SUBSET play
          /\ remote_ahead \in
                {[n \in RunNames |-> IF n \in play THEN g[n] ELSE 0] :
                    g \in [play -> InitialAhead]}
          /\ remote_prs \in
                {[n \in RunNames |-> IF n \in play THEN g[n] ELSE NoPR] :
                    g \in [play -> PRStates \cup {NoPR}]}
    /\ \A n \in RunNames : n \notin remote_branches => remote_ahead[n] = 0
    /\ pr_count = Cardinality({n \in RunNames : remote_prs[n] # NoPR})
    /\ local_branches = {default_branch}
    /\ local_ahead = [n \in RunNames |-> 0]
    /\ local_commits = [n \in RunNames |-> <<>>]
    /\ current_branch = default_branch
    /\ existing_branches = {}
    /\ existing_prs = <<>>
    /\ branches_to_process = <<>>
    /\ created_branches = <<>>
    /\ created_pull_requests = <<>>
    /\ pending_pushes = <<>>
    /\ pc = "init"
    /\ i = 1
    /\ j = 1
    /\ cmd_log = <<>>
    /\ calls = <<>>
    /\ outputs = <<>>
    /\ exit_code = "none"
    /\ run = 1
    /\ prev_run = [exit |-> "none", branches |-> <<>>, prs |-> <<>>]

\* sys.exit(1) after the commands in log were executed
Exit(log) ==
    /\ pc' = "exited"
    /\ exit_code' = "1"
    /\ cmd_log' = cmd_log \o log

\* __main__, line 790: AssignmentPRCreator(); the ValueError of a missing
\* credential and the GithubException of get_repo are raised outside the try
\* of run, so the interpreter ends with a traceback and status 1
Construct ==
    /\ pc = "init"
    /\ IF ~Truthy(github_token) \/ ~Truthy(repository_name)
       THEN /\ Exit(<<>>)
       ELSE IF dry_run
       THEN /\ pc' = "start"
            /\ UNCHANGED <<cmd_log, exit_code>>
       ELSE \E ok \in BOOLEAN :
               IF ok
               THEN /\ pc' = "start"
                    /\ cmd_log' = cmd_log \o
                          <<Executed(Command("api get_repo", repository_name.value), TRUE)>>
                    /\ UNCHANGED exit_code
               ELSE Exit(<<Executed(Command("api get_repo", repository_name.value), FALSE)>>)
    /\ UNCHANGED <<unitVars, configVars, remoteVars, gitVars, snapshotVars, accVars,
                   runVars, branches_to_process, i, j, calls, outputs>>

\* process_assignments without the early return of lines 658-660: an empty
\* list goes on to the fetch
NoAssignments_NoEarlyReturn ==
    /\ pc = "start"
    /\ assignments = <<>>
    /\ calls' = Append(calls, Call("fetch_all_remote_branches", <<>>, <<>>))
    /\ cmd_log' = cmd_log \o run_git_command(Command("git fetch --all", <<>>), TRUE).log
    /\ pc' = "get_branches"
    /\ UNCHANGED <<unitVars, configVars, remoteVars, gitVars, snapshotVars, accVars,
                   runVars, branches_to_process, i, j, outputs, exit_code>>

\* process_assignments, lines 656-660: no assignment found
NoAssignments ==
    /\ pc = "start"
    /\ assignments = <<>>
    /\ pc' = "set_outputs"
    /\ UNCHANGED <<unitVars, configVars, remoteVars, gitVars, snapshotVars, accVars,
                   runVars, branches_to_process, i, j, cmd_log, calls,
                   outputs, exit_code>>

\* process_assignments phase 0: fetch_all_remote_branches
FetchAllRemoteBranches ==
    /\ pc = "start"
    /\ assignments # <<>>
    /\ \E head_listed \in BOOLEAN :
       \E names \in {TrackingNames(GitBranchROutput(head_listed))} :
       \E f \in 0..(Len(names) + 3) :
       \E r \in {RunCommands(
                  IF dry_run
                  THEN <<Step("git fetch --all", <<>>, f # 1, TRUE, FALSE)>>
                  ELSE <<Step("git fetch --all", <<>>, f # 1, TRUE, FALSE),
                         Step("git branch -r", <<>>, f # 2, FALSE, TRUE)>>
                       \o [k \in 1..Len(names) |->
                             Step("git checkout -b <name> origin/<name>",
                                  names[k],
                                  /\ f # k + 2
                                  /\ ValidRefName(names[k])
                                  /\ names[k] \in remote_branches
                                  /\ names[k] \notin local_branches,
                                  FALSE, FALSE)]
                       \o <<Step("git checkout", default_branch,
                                 f # Len(names) + 3, FALSE, FALSE)>>, 1)} :
       LET n == Len(names)
           tracked == {names[k] : k \in {m \in 1..n : m + 2 \in r.done}}
       IN  /\ calls' = Append(calls, Call("fetch_all_remote_branches", <<>>, <<>>))
           /\ local_branches' = local_branches \cup tracked
           /\ local_ahead' = [b \in Names |->
                                IF b \in tracked THEN remote_ahead[b]
                                ELSE local_ahead[b]]
           /\ local_commits' = [b \in Names |->
                                  IF b \in tracked
                                  THEN [k \in 1..remote_ahead[b] |-> <<>>]
                                  ELSE local_commits[b]]
           /\ current_branch' =
                IF (n + 3) \in r.done THEN default_branch
                ELSE IF tracked # {}
                THEN names[CHOOSE k \in 1..n :
                              /\ k + 2 \in r.done
                              /\ \A m \in 1..n : m + 2 \in r.done => m <= k]
                ELSE current_branch
           /\ IF r.res = "exit" THEN Exit(r.log)
              ELSE /\ cmd_log' = cmd_log \o r.log
                   /\ pc' = IF r.res = "true" THEN "get_branches"
                            ELSE "set_outputs"
                   /\ UNCHANGED exit_code
    /\ UNCHANGED <<unitVars, configVars, remoteVars, snapshotVars, accVars, runVars,
                   branches_to_process, i, j, outputs>>

\* process_assignments phase 1: get_existing_branches
GetExistingBranches ==
    /\ pc = "get_branches"
    /\ calls' = Append(calls, Call("get_existing_branches", <<>>, <<>>))
    /\ IF dry_run
       THEN /\ existing_branches' = {}
            /\ pc' = "get_prs"
            /\ UNCHANGED <<cmd_log, exit_code>>
       ELSE \E ok \in BOOLEAN :
            \E r \in {RunCommands(<<Step("git branch", <<>>, ok, FALSE, TRUE)>>, 1)} :
                IF r.res = "exit"
                THEN /\ Exit(r.log)
                     /\ UNCHANGED existing_branches
                ELSE /\ existing_branches' = ParseBranches(GitBranchOutput)
                     /\ cmd_log' = cmd_log \o r.log
                     /\ pc' = "get_prs"
                     /\ UNCHANGED exit_code
    /\ UNCHANGED <<unitVars, configVars, remoteVars, gitVars, existing_prs, accVars,
                   runVars, branches_to_process, i, j, outputs>>

\* get_existing_pull_requests without its dry-run branch: the PR history is
\* read from the repository in dry-run mode too
GetExistingPullRequests_ReadsInDryRun ==
    /\ pc = "get_prs"
    /\ calls' = Append(calls, Call("get_existing_pull_requests", <<>>, <<>>))
    /\ existing_prs' = PullRequestHistory(remote_prs)
    /\ pc' = "loop"
    /\ UNCHANGED <<cmd_log, exit_code>>
    /\ UNCHANGED <<unitVars, configVars, remoteVars, gitVars, existing_branches, accVars,
                   runVars, branches_to_process, i, j, outputs>>

\* process_assignments phase 1: get_existing_pull_requests
GetExistingPullRequests ==
    /\ pc = "get_prs"
    /\ calls' = Append(calls, Call("get_existing_pull_requests", <<>>, <<>>))
    /\ IF dry_run
       THEN /\ existing_prs' = <<>>
            /\ pc' = "loop"
            /\ UNCHANGED <<cmd_log, exit_code>>
       ELSE \E ok \in BOOLEAN :
            LET r == github_call(Command("api get_pulls", <<"a", "l", "l">>), ok)
            IN  IF r.res = "exit"
                THEN /\ Exit(r.log)
                     /\ UNCHANGED existing_prs
                ELSE /\ existing_prs' = PullRequestHistory(remote_prs)
                     /\ cmd_log' = cmd_log \o r.log
                     /\ pc' = "loop"
                     /\ UNCHANGED exit_code
    /\ UNCHANGED <<unitVars, configVars, remoteVars, gitVars, existing_branches, accVars,
                   runVars, branches_to_process, i, j, outputs>>

\* Decision with the PR history ignored: an assignment is new when it has no branch
Decision_BranchOnly(branch_exists, pr_has_existed) ==
    IF ~branch_exists THEN "create" ELSE "skip"

\* Decision with the test of the first row negated
Decision_NegationSlip(branch_exists, pr_has_existed) ==
    IF ~branch_exists /\ pr_has_existed THEN "create"
    ELSE IF ~branch_exists /\ ~pr_has_existed THEN "skip"
    ELSE IF branch_exists /\ ~pr_has_existed THEN "pr_only"
    ELSE "skip"

\* Decision with an existing branch without pull request treated as new
Decision_RecreateExisting(branch_exists, pr_has_existed) ==
    IF ~pr_has_existed THEN "create" ELSE "skip"

\* process_assignments, lines 686-714: the row of the decision table
Decision(branch_exists, pr_has_existed) ==
    IF ~branch_exists /\ ~pr_has_existed THEN "create"
    ELSE IF ~branch_exists /\ pr_has_existed THEN "skip"
    ELSE IF branch_exists /\ ~pr_has_existed THEN "pr_only"
    ELSE "skip"

\* process_assignments, lines 729-733: the check before create_pull_request
ShouldCreatePR(pr_has_existed) == ~pr_has_existed

\* create_readme: a write to the workspace, guarded by `if not self.dry_run`
fs_write(entries) ==
    IF dry_run THEN <<>>
    ELSE [k \in 1..Len(entries) |-> Executed(entries[k], TRUE)]

\* create_readme, line 281: readme_path.exists(); the directories of the
\* first scenario hold no README.md, the other paths may or may not
ReadmeMayExist(assignment_path) ==
    IF assignment_path \in ScenarioPaths THEN {FALSE} ELSE BOOLEAN

\* create_readme, line 341: the commit message
commit_message(readme_exists_now) ==
    IF ~readme_exists_now \/ dry_run
    THEN "git commit -m Add README for assignment <path>"
    ELSE "git commit -m Augment README for assignment <path>"

\* has_branch_changes: the branch is at least one commit ahead of the default
has_branch_changes(branch_name) ==
    IF dry_run THEN TRUE ELSE local_ahead[branch_name] > 0

\* the branch name of the assignment being processed in phase 2
CurrentBranchName == sanitize_branch_name(assignments[i])

\* the decision taken from the present state of the repository, queried
\* again for every assignment, instead of from the snapshot
CurrentDecision_Requery ==
    Decision(CurrentBranchName \in local_branches,
             remote_prs[CurrentBranchName] # NoPR)

\* the row of the decision table for the assignment being processed
CurrentDecision ==
    Decision(CurrentBranchName \in existing_branches,
             CurrentBranchName \in DOMAIN existing_prs)

\* phase 2, rows "no branch, PR has existed" and "branch, PR has existed"
SkipAssignment ==
    /\ pc = "loop"
    /\ i <= Len(assignments)
    /\ CurrentDecision = "skip"
    /\ i' = i + 1
    /\ UNCHANGED <<unitVars, configVars, remoteVars, gitVars, snapshotVars, accVars,
                   runVars, branches_to_process, pc, j, cmd_log, calls,
                   outputs, exit_code>>

\* the row "branch exists, no PR has existed" handled per assignment: the
\* pull request is opened at once, inside phase 2
QueueExistingBranch_OpensPullRequest ==
    /\ pc = "loop"
    /\ i <= Len(assignments)
    /\ CurrentDecision = "pr_only"
    /\ remote_prs' = [remote_prs EXCEPT ![CurrentBranchName] = "open"]
    /\ pr_count' = pr_count + 1
    /\ created_pull_requests' = Append(created_pull_requests, PrId(pr_count + 1))
    /\ calls' = Append(calls, Call("create_pull_request", assignments[i],
                                   CurrentBranchName))
    /\ i' = i + 1
    /\ UNCHANGED <<unitVars, configVars, remote_branches, remote_ahead, gitVars,
                   snapshotVars, created_branches, pending_pushes, runVars,
                   branches_to_process, pc, j, cmd_log, outputs, exit_code>>

\* phase 2, row "branch exists, no PR has existed": queued for phase 4
QueueExistingBranch ==
    /\ pc = "loop"
    /\ i <= Len(assignments)
    /\ CurrentDecision = "pr_only"
    /\ branches_to_process' =
          Append(branches_to_process, <<assignments[i], CurrentBranchName>>)
    /\ i' = i + 1
    /\ UNCHANGED <<unitVars, configVars, remoteVars, gitVars, snapshotVars, accVars,
                   runVars, pc, j, cmd_log, calls, outputs, exit_code>>

\* git rev-list <default>..<branch>: the commits of a local branch that the
\* default branch does not have
CommitsAhead(branch) ==
    IF branch = default_branch THEN <<>> ELSE local_commits[branch]

\* create_branch without its first command: the new branch starts at
\* whatever is checked out
create_branch_start_NoCheckout == current_branch

\* create_branch, lines 241-249: `git checkout -b` runs after
\* `git checkout <default>` succeeded and starts the branch at its tip
create_branch_start == default_branch

\* phase 2, row "no branch, no PR has existed": create_branch
CreateBranch ==
    /\ pc = "loop"
    /\ i <= Len(assignments)
    /\ CurrentDecision = "create"
    /\ \E f \in 0..2, branch_name \in {CurrentBranchName} :
       \E r \in {RunCommands(
                  <<Step("git checkout", default_branch, f # 1, TRUE, FALSE),
                    Step("git checkout -b", branch_name,
                         f # 2 /\ branch_name \notin local_branches,
                         TRUE, FALSE)>>, 1)} :
           /\ calls' = Append(calls, Call("create_branch", <<>>, branch_name))
           /\ local_branches' = IF 2 \in r.done
                                THEN local_branches \cup {branch_name}
                                ELSE local_branches
           /\ local_ahead' = IF 2 \in r.done
                             THEN [local_ahead EXCEPT ![branch_name] =
                                      Len(CommitsAhead(create_branch_start))]
                             ELSE local_ahead
           /\ local_commits' = IF 2 \in r.done
                               THEN [local_commits EXCEPT ![branch_name] =
                                        CommitsAhead(create_branch_start)]
                               ELSE local_commits
           /\ current_branch' = IF 2 \in r.done THEN branch_name
                                ELSE IF 1 \in r.done THEN default_branch
                                ELSE current_branch
           /\ IF r.res = "exit"
              THEN /\ Exit(r.log)
                   /\ UNCHANGED <<accVars, i>>
              ELSE /\ cmd_log' = cmd_log \o r.log
                   /\ UNCHANGED <<exit_code, created_pull_requests>>
                   /\ IF r.res = "true"
                      THEN /\ created_branches' = Append(created_branches, branch_name)
                           /\ pending_pushes' = Append(pending_pushes, branch_name)
                           /\ pc' = "readme"
                           /\ i' = i
                      ELSE /\ UNCHANGED <<created_branches, pending_pushes>>
                           /\ pc' = "loop"
                           /\ i' = i + 1
    /\ UNCHANGED <<unitVars, configVars, remoteVars, snapshotVars, runVars,
                   branches_to_process, j, outputs>>

\* phase 2, row "no branch, no PR has existed": create_readme
CreateReadme ==
    /\ pc = "readme"
    /\ \E f \in 0..2, readme_exists \in ReadmeMayExist(assignments[i]) :
       \E assignment_path \in {assignments[i]}, branch_name \in {CurrentBranchName} :
       \E written \in {fs_write(
                        <<Command("mkdir -p", assignment_path),
                          Command(IF readme_exists THEN "write augmented README.md"
                                  ELSE "write new README.md", assignment_path)>>)} :
       \E r \in {RunCommands(
                  <<Step("git add", assignment_path, f # 1, TRUE, FALSE),
                    Step(commit_message(readme_exists \/ written # <<>>),
                         assignment_path, f # 2, TRUE, FALSE)>>, 1)} :
           /\ calls' = Append(calls, Call("create_readme", assignment_path, branch_name))
           /\ local_ahead' = IF 2 \in r.done /\ current_branch \in Names
                             THEN [local_ahead EXCEPT ![current_branch] = @ + 1]
                             ELSE local_ahead
           /\ local_commits' = IF 2 \in r.done /\ current_branch \in Names
                               THEN [local_commits EXCEPT ![current_branch] =
                                        Append(@, assignment_path)]
                               ELSE local_commits
           /\ IF r.res = "exit"
              THEN /\ Exit(written \o r.log)
                   /\ UNCHANGED <<branches_to_process, i>>
              ELSE /\ cmd_log' = cmd_log \o written \o r.log
                   /\ pc' = "loop"
                   /\ i' = i + 1
                   /\ branches_to_process' =
                         IF r.res = "true"
                         THEN Append(branches_to_process,
                                     <<assignment_path, branch_name>>)
                         ELSE branches_to_process
                   /\ UNCHANGED exit_code
    /\ UNCHANGED <<unitVars, configVars, remoteVars, local_branches, current_branch,
                   snapshotVars, accVars, runVars, j, outputs>>

\* the end of phase 2: lines 716-717 and 739-741
EndLocalPhase ==
    /\ pc = "loop"
    /\ i > Len(assignments)
    /\ pc' = IF branches_to_process # <<>> THEN "push" ELSE "set_outputs"
    /\ UNCHANGED <<unitVars, configVars, remoteVars, gitVars, snapshotVars, accVars,
                   runVars, branches_to_process, i, j, cmd_log, calls,
                   outputs, exit_code>>

\* phase 3: push_branches_to_remote
PushBranchesToRemote ==
    /\ pc = "push"
    /\ calls' = Append(calls, Call("push_branches_to_remote", <<>>, <<>>))
    /\ IF pending_pushes = <<>>
       THEN /\ pc' = "prs"
            /\ UNCHANGED <<remoteVars, accVars, cmd_log, exit_code>>
       ELSE \E ok \in BOOLEAN :
            \E r \in {RunCommands(
                       <<Step("git push --all origin", <<>>, ok, TRUE, FALSE)>>, 1)} :
            LET pushed == local_branches \ {default_branch}
            IN  /\ remote_branches' = IF 1 \in r.done
                                      THEN remote_branches \cup pushed
                                      ELSE remote_branches
                /\ remote_ahead' = IF 1 \in r.done
                                   THEN [n \in Names |->
                                           IF n \in pushed THEN local_ahead[n]
                                           ELSE remote_ahead[n]]
                                   ELSE remote_ahead
                /\ UNCHANGED <<remote_prs, pr_count, created_branches,
                               created_pull_requests>>
                /\ IF r.res = "exit"
                   THEN /\ Exit(r.log)
                        /\ UNCHANGED pending_pushes
                   ELSE /\ cmd_log' = cmd_log \o r.log
                        /\ UNCHANGED exit_code
                        /\ IF r.res = "true"
                           THEN /\ pending_pushes' = <<>>
                                /\ pc' = "prs"
                           ELSE /\ UNCHANGED pending_pushes
                                /\ pc' = "set_outputs"
    /\ UNCHANGED <<unitVars, configVars, gitVars, snapshotVars, runVars,
                   branches_to_process, i, j, outputs>>

\* phase 4, one entry of branches_to_process: create_pull_request
CreatePullRequest ==
    /\ pc = "prs"
    /\ j <= Len(branches_to_process)
    /\ LET assignment_path == branches_to_process[j][1]
           branch_name == branches_to_process[j][2]
       IN  IF ~ShouldCreatePR(branch_name \in DOMAIN existing_prs)
           THEN /\ j' = j + 1
                /\ UNCHANGED <<remoteVars, accVars, pc, cmd_log, calls, exit_code>>
           ELSE /\ calls' = Append(calls, Call("create_pull_request",
                                               assignment_path, branch_name))
                /\ UNCHANGED <<remote_branches, remote_ahead, created_branches,
                               pending_pushes>>
                /\ IF dry_run
                   THEN /\ created_pull_requests' =
                              Append(created_pull_requests,
                                     PrId(Len(created_pull_requests) + 1))
                        /\ j' = j + 1
                        /\ UNCHANGED <<remote_prs, pr_count, pc, cmd_log, exit_code>>
                   ELSE \E ok \in BOOLEAN :
                        LET r == github_call(
                                   Command("api create_pull",
                                           [title |-> pull_request_title(assignment_path),
                                            head  |-> branch_name,
                                            base  |-> default_branch]),
                                   ok /\ GitHubAcceptsPull(branch_name))
                        IN  IF r.res = "exit"
                            THEN /\ Exit(r.log)
                                 /\ UNCHANGED <<remote_prs, pr_count,
                                                created_pull_requests, j>>
                            ELSE /\ remote_prs' = [remote_prs EXCEPT ![branch_name] = "open"]
                                 /\ pr_count' = pr_count + 1
                                 /\ created_pull_requests' =
                                       Append(created_pull_requests,
                                              PrId(pr_count + 1))
                                 /\ cmd_log' = cmd_log \o r.log
                                 /\ j' = j + 1
                                 /\ UNCHANGED <<pc, exit_code>>
    /\ UNCHANGED <<unitVars, configVars, gitVars, snapshotVars, runVars,
                   branches_to_process, i, outputs>>

\* the end of phase 4: process_assignments returns
EndPullRequestPhase ==
    /\ pc = "prs"
    /\ j > Len(branches_to_process)
    /\ pc' = "set_outputs"
    /\ UNCHANGED <<unitVars, configVars, remoteVars, gitVars, snapshotVars, accVars,
                   runVars, branches_to_process, i, j, cmd_log, calls,
                   outputs, exit_code>>

\* run, lines 775-782: set_outputs, then the process ends with status 0
SetOutputs ==
    /\ pc = "set_outputs"
    /\ \E github_output_set \in BOOLEAN :
          outputs' = IF github_output_set
                     THEN outputs \o set_outputs(created_branches,
                                                 created_pull_requests)
                     ELSE outputs
    /\ pc' = "done"
    /\ exit_code' = "0"
    /\ UNCHANGED <<unitVars, configVars, remoteVars, gitVars, snapshotVars, accVars,
                   runVars, branches_to_process, i, j, cmd_log, calls>>

\* the next run of the tool, on a fresh checkout of the same repository
NextRun ==
    /\ pc \in {"done", "exited"}
    /\ run < MaxRuns
    /\ run' = run + 1
    /\ prev_run' = [exit |-> exit_code, branches |-> created_branches,
                     prs |-> created_pull_requests]
    /\ local_branches' = {default_branch}
    /\ local_ahead' = [n \in Names |-> 0]
    /\ local_commits' = [n \in Names |-> <<>>]
    /\ current_branch' = default_branch
    /\ existing_branches' = {}
    /\ existing_prs' = <<>>
    /\ branches_to_process' = <<>>
    /\ created_branches' = <<>>
    /\ created_pull_requests' = <<>>
    /\ pending_pushes' = <<>>
    /\ pc' = "init"
    /\ i' = 1
    /\ j' = 1
    /\ cmd_log' = <<>>
    /\ calls' = <<>>
    /\ outputs' = <<>>
    /\ exit_code' = "none"
    /\ UNCHANGED <<unitVars, configVars, remoteVars>>

Next ==
    \/ Construct
    \/ NoAssignments
    \/ FetchAllRemoteBranches
    \/ GetExistingBranches
    \/ GetExistingPullRequests
    \/ SkipAssignment
    \/ QueueExistingBranch
    \/ CreateBranch
    \/ CreateReadme
    \/ EndLocalPhase
    \/ PushBranchesToRemote
    \/ CreatePullRequest
    \/ EndPullRequestPhase
    \/ SetOutputs
    \/ NextRun

Spec == Init /\ [][Next]_vars

\* a call made by a run that has not ended returns: the run moves on to
\* another statement or to the next entry of a loop
Advance ==
    /\ pc \notin {"done", "exited"}
    /\ pc' \in {"init", "scan", "start", "get_branches", "get_prs", "loop",
               "readme", "push", "prs", "set_outputs", "done", "exited"}
    /\ i' \in 1..(Len(assignments) + 1)
    /\ j' \in 1..(Len(assignments) + 1)

\* the runs when every call to git and to GitHub returns
SpecFair == Init /\ [][Next]_vars /\ WF_<<pc, i, j>>(Advance)

\* ------------------------------------------------ functions on their own
\* no run of the tool is in progress
ProgramIdle ==
    /\ github_token = Unset
    /\ repository_name = Unset
    /\ dry_run = FALSE
    /\ assignments = <<>>
    /\ remote_branches = {}
    /\ remote_ahead = [n \in RunNames |-> 0]
    /\ remote_prs = [n \in RunNames |-> NoPR]
    /\ pr_count = 0
    /\ local_branches = {default_branch}
    /\ local_ahead = [n \in RunNames |-> 0]
    /\ local_commits = [n \in RunNames |-> <<>>]
    /\ current_branch = default_branch
    /\ existing_branches = {}
    /\ existing_prs = <<>>
    /\ branches_to_process = <<>>
    /\ created_branches = <<>>
    /\ created_pull_requests = <<>>
    /\ pending_pushes = <<>>
    /\ pc = "init"
    /\ i = 1
    /\ j = 1
    /\ cmd_log = <<>>
    /\ calls = <<>>
    /\ outputs = <<>>
    /\ exit_code = "none"
    /\ run = 1
    /\ prev_run = [exit |-> "none", branches |-> <<>>, prs |-> <<>>]

\* the characters of the paths given to sanitize_branch_name: a lowercase
\* and an uppercase letter, a digit, two kinds of whitespace, '/' and '-'
NamerAlphabet == {"a", "B", "4", " ", "\t", "/", "-"}

\* 'Module 4/Lab Assignment'
ExampleModule ==
    <<"M", "o", "d", "u", "l", "e", " ", "4", "/", "L", "a", "b", " ", "A",
      "s", "s", "i", "g", "n", "m", "e", "n", "t">>

\* '  spaced  assignment  '
ExampleSpaced ==
    <<" ", " ", "s", "p", "a", "c", "e", "d", " ", " ", "a", "s", "s", "i",
      "g", "n", "m", "e", "n", "t", " ", " ">>

\* 'Complex Path / With Spaces'
ExampleComplex ==
    <<"C", "o", "m", "p", "l", "e", "x", " ", "P", "a", "t", "h", " ", "/",
      " ", "W", "i", "t", "h", " ", "S", "p", "a", "c", "e", "s">>

\* '--multiple--hyphens--'
ExampleHyphens ==
    <<"-", "-", "m", "u", "l", "t", "i", "p", "l", "e", "-", "-", "h", "y",
      "p", "h", "e", "n", "s", "-", "-">>

\* every string of at most MaxPathLen characters, and the four examples
NamerInputs ==
    UNION {[1..n -> NamerAlphabet] : n \in 0..MaxPathLen}
        \cup {ExampleModule, ExampleSpaced, ExampleComplex, ExampleHyphens}

InitNamer ==
    /\ ProgramIdle
    /\ RaceIdle
    /\ ReadmeIdle
    /\ ScannerIdle
    /\ path_in \in NamerInputs
    /\ names_out = <<>>

\* sanitize_branch_name applied to the path, then to its own result
Sanitize ==
    /\ Len(names_out) < 2
    /\ names_out' =
          Append(names_out,
                 sanitize_branch_name(IF names_out = <<>> THEN path_in
                                      ELSE names_out[Len(names_out)]))
    /\ UNCHANGED <<programVars, path_in, readmeVars, scannerVars, raceVars>>

NextNamer == Sanitize

SpecNamer == InitNamer /\ [][NextNamer]_vars

\* the characters of an existing README.md: a letter, a space and a newline
ContentAlphabet == {"a", " ", "\n"}

\* an existing README.md of at most MaxContentLen characters, or none
ReadmeInputs ==
    {NoFile} \cup
    {[exists |-> TRUE, text |-> t] :
        t \in UNION {[1..n -> ContentAlphabet] : n \in 0..MaxContentLen}}

InitReadme ==
    /\ ProgramIdle
    /\ RaceIdle
    /\ NamerIdle
    /\ ScannerIdle
    /\ existing_content \in ReadmeInputs
    /\ written_content = <<>>

\* create_readme in live mode, lines 280-327: README.md is written
WriteReadme ==
    /\ written_content = <<>>
    /\ written_content' = readme_text(existing_content, PathA1)
    /\ UNCHANGED <<programVars, existing_content, namerVars, scannerVars, raceVars>>

NextReadme == WriteReadme

SpecReadme == InitReadme /\ [][NextReadme]_vars

\* the patterns: every set of directory names a regular expression can match
Patterns == SUBSET DirNames

InitScanner ==
    /\ ProgramIdle
    /\ RaceIdle
    /\ NamerIdle
    /\ ReadmeIdle
    /\ workspace_tree = {}
    /\ root_pattern \in Patterns
    /\ assignment_pattern \in Patterns
    /\ found = NotScanned

\* a directory is made in the workspace before the scan
MakeDir ==
    /\ ~found.done
    /\ Cardinality(workspace_tree) < MaxDirs
    /\ \E parent \in workspace_tree \cup {<<>>}, name \in DirNames :
          /\ Append(parent, name) \notin workspace_tree
          /\ workspace_tree' = workspace_tree \cup {Append(parent, name)}
    /\ UNCHANGED <<programVars, namerVars, readmeVars, raceVars, root_pattern,
                   assignment_pattern, found>>

\* find_assignments scans the workspace
FindAssignments ==
    /\ ~found.done
    /\ \E order \in Orders :
          found' = [done  |-> TRUE,
                    paths |-> find_assignments(workspace_tree, root_pattern,
                                               assignment_pattern, order)]
    /\ UNCHANGED <<programVars, namerVars, readmeVars, raceVars, workspace_tree,
                   root_pattern, assignment_pattern>>

NextScanner ==
    \/ MakeDir
    \/ FindAssignments

SpecScanner == InitScanner /\ [][NextScanner]_vars

\* the branch of a scanned workspace that the remote may already have
ScanRemoteName ==
    sanitize_branch_name(RelativePath(<<DirAssignments, DirAssignment3>>))

\* process_assignments on a workspace that is scanned: the object is
\* constructed, the patterns are the default ones
InitScanRun ==
    /\ NamerIdle
    /\ ReadmeIdle
    /\ RaceIdle
    /\ workspace_tree = {}
    /\ root_pattern = DefaultRootPattern
    /\ assignment_pattern = DefaultAssignmentPattern
    /\ found = NotScanned
    /\ github_token = [set |-> TRUE, value |-> <<"x">>]
    /\ repository_name = [set |-> TRUE, value |-> <<"x">>]
    /\ dry_run \in BOOLEAN
    /\ assignments = <<>>
    /\ remote_branches \in SUBSET {ScanRemoteName}
    /\ remote_ahead \in
          {[n \in ScanNames |-> IF n \in remote_branches THEN a ELSE 0] :
              a \in InitialAhead}
    /\ remote_prs \in
          {[n \in ScanNames |-> IF n = ScanRemoteName THEN st ELSE NoPR] :
              st \in PRStates \cup {NoPR}}
    /\ pr_count = Cardinality({n \in ScanNames : remote_prs[n] # NoPR})
    /\ local_branches = {default_branch}
    /\ local_ahead = [n \in ScanNames |-> 0]
    /\ local_commits = [n \in ScanNames |-> <<>>]
    /\ current_branch = default_branch
    /\ existing_branches = {}
    /\ existing_prs = <<>>
    /\ branches_to_process = <<>>
    /\ created_branches = <<>>
    /\ created_pull_requests = <<>>
    /\ pending_pushes = <<>>
    /\ pc = "scan"
    /\ i = 1
    /\ j = 1
    /\ cmd_log = <<>>
    /\ calls = <<>>
    /\ outputs = <<>>
    /\ exit_code = "none"
    /\ run = 1
    /\ prev_run = [exit |-> "none", branches |-> <<>>, prs |-> <<>>]

\* process_assignments, line 656: assignments = self.find_assignments()
Discover ==
    /\ pc = "scan"
    /\ ~found.done
    /\ \E order \in Orders :
       \E list \in {find_assignments(workspace_tree, root_pattern,
                                     assignment_pattern, order)} :
          /\ found' = [done |-> TRUE, paths |-> list]
          /\ assignments' = list
    /\ pc' = "start"
    /\ UNCHANGED <<namerVars, readmeVars, raceVars, workspace_tree, root_pattern,
                   assignment_pattern, github_token, repository_name, dry_run,
                   remoteVars, gitVars, snapshotVars, accVars, runVars,
                   branches_to_process, i, j, cmd_log, calls, outputs,
                   exit_code>>

NextScanRun ==
    \/ MakeDir
    \/ Discover
    \/ NoAssignments
    \/ FetchAllRemoteBranches
    \/ GetExistingBranches
    \/ GetExistingPullRequests
    \/ SkipAssignment
    \/ QueueExistingBranch
    \/ CreateBranch
    \/ CreateReadme
    \/ EndLocalPhase
    \/ PushBranchesToRemote
    \/ CreatePullRequest
    \/ EndPullRequestPhase
    \/ SetOutputs

SpecScanRun == InitScanRun /\ [][NextScanRun]_vars

\* process_assignments on the workspace of the scenarios with two
\* assignments, against every state of the remote
InitMixed ==
    /\ NamerIdle
    /\ ReadmeIdle
    /\ RaceIdle
    /\ workspace_tree = MixedTree
    /\ root_pattern = DefaultRootPattern
    /\ assignment_pattern = DefaultAssignmentPattern
    /\ found = NotScanned
    /\ github_token = [set |-> TRUE, value |-> <<"x">>]
    /\ repository_name = [set |-> TRUE, value |-> <<"x">>]
    /\ dry_run \in BOOLEAN
    /\ assignments = <<>>
    /\ remote_branches \in SUBSET MixedNames
    /\ remote_ahead \in [MixedNames -> InitialAhead]
    /\ \A n \in MixedNames : n \notin remote_branches => remote_ahead[n] = 0
    /\ remote_prs \in [MixedNames -> PRStates \cup {NoPR}]
    /\ pr_count = Cardinality({n \in MixedNames : remote_prs[n] # NoPR})
    /\ local_branches = {default_branch}
    /\ local_ahead = [n \in MixedNames |-> 0]
    /\ local_commits = [n \in MixedNames |-> <<>>]
    /\ current_branch = default_branch
    /\ existing_branches = {}
    /\ existing_prs = <<>>
    /\ branches_to_process = <<>>
    /\ created_branches = <<>>
    /\ created_pull_requests = <<>>
    /\ pending_pushes = <<>>
    /\ pc = "scan"
    /\ i = 1
    /\ j = 1
    /\ cmd_log = <<>>
    /\ calls = <<>>
    /\ outputs = <<>>
    /\ exit_code = "none"
    /\ run = 1
    /\ prev_run = [exit |-> "none", branches |-> <<>>, prs |-> <<>>]

NextMixed ==
    \/ Discover
    \/ FetchAllRemoteBranches
    \/ GetExistingBranches
    \/ GetExistingPullRequests
    \/ SkipAssignment
    \/ QueueExistingBranch
    \/ CreateBranch
    \/ CreateReadme
    \/ EndLocalPhase
    \/ PushBranchesToRemote
    \/ CreatePullRequest
    \/ EndPullRequestPhase
    \/ SetOutputs

SpecMixed == InitMixed /\ [][NextMixed]_vars

\* ------------------------------------------------------- two runs at once
\* the state of the run that is taking steps: its checkout, its snapshot, its
\* lists and its position
Me ==
    [local_branches |-> local_branches,
     local_ahead |-> local_ahead,
     local_commits |-> local_commits,
     current_branch |-> current_branch,
     existing_branches |-> existing_branches,
     existing_prs |-> existing_prs,
     created_branches |-> created_branches,
     created_pull_requests |-> created_pull_requests,
     pending_pushes |-> pending_pushes,
     branches_to_process |-> branches_to_process,
     pc |-> pc,
     i |-> i,
     j |-> j,
     cmd_log |-> cmd_log,
     calls |-> calls,
     outputs |-> outputs,
     exit_code |-> exit_code]

\* a run that has not started, on a fresh checkout
FreshRun ==
    [local_branches |-> {default_branch},
     local_ahead |-> [n \in Names |-> 0],
     local_commits |-> [n \in Names |-> <<>>],
     current_branch |-> default_branch,
     existing_branches |-> {},
     existing_prs |-> <<>>,
     created_branches |-> <<>>,
     created_pull_requests |-> <<>>,
     pending_pushes |-> <<>>,
     branches_to_process |-> <<>>,
     pc |-> "init",
     i |-> 1,
     j |-> 1,
     cmd_log |-> <<>>,
     calls |-> <<>>,
     outputs |-> <<>>,
     exit_code |-> "none"]

\* two live runs of the tool, each on its own checkout, against one remote
\* repository that has no assignment branch and no pull request
InitRace ==
    /\ NamerIdle
    /\ ReadmeIdle
    /\ ScannerIdle
    /\ github_token = [set |-> TRUE, value |-> <<"x">>]
    /\ repository_name = [set |-> TRUE, value |-> <<"x">>]
    /\ dry_run = FALSE
    /\ assignments \in {list \in AssignmentLists : Len(list) <= 1}
    /\ remote_branches = {}
    /\ remote_ahead = [n \in RunNames |-> 0]
    /\ remote_prs = [n \in RunNames |-> NoPR]
    /\ pr_count = 0
    /\ local_branches = FreshRun.local_branches
    /\ local_ahead = FreshRun.local_ahead
    /\ local_commits = FreshRun.local_commits
    /\ current_branch = FreshRun.current_branch
    /\ existing_branches = FreshRun.existing_branches
    /\ existing_prs = FreshRun.existing_prs
    /\ created_branches = FreshRun.created_branches
    /\ created_pull_requests = FreshRun.created_pull_requests
    /\ pending_pushes = FreshRun.pending_pushes
    /\ branches_to_process = FreshRun.branches_to_process
    /\ pc = FreshRun.pc
    /\ i = FreshRun.i
    /\ j = FreshRun.j
    /\ cmd_log = FreshRun.cmd_log
    /\ calls = FreshRun.calls
    /\ outputs = FreshRun.outputs
    /\ exit_code = FreshRun.exit_code
    /\ other = FreshRun
    /\ run = 1
    /\ prev_run = [exit |-> "none", branches |-> <<>>, prs |-> <<>>]

\* the operating system's scheduler: the other run takes the next steps
Switch ==
    /\ other # NoRun
    /\ other' = Me
    /\ local_branches' = other.local_branches
    /\ local_ahead' = other.local_ahead
    /\ local_commits' = other.local_commits
    /\ current_branch' = other.current_branch
    /\ existing_branches' = other.existing_branches
    /\ existing_prs' = other.existing_prs
    /\ created_branches' = other.created_branches
    /\ created_pull_requests' = other.created_pull_requests
    /\ pending_pushes' = other.pending_pushes
    /\ branches_to_process' = other.branches_to_process
    /\ pc' = other.pc
    /\ i' = other.i
    /\ j' = other.j
    /\ cmd_log' = other.cmd_log
    /\ calls' = other.calls
    /\ outputs' = other.outputs
    /\ exit_code' = other.exit_code
    /\ UNCHANGED <<namerVars, readmeVars, scannerVars, configVars, remoteVars,
                   runVars>>

NextRace ==
    \/ Switch
    \/ Construct
    \/ NoAssignments
    \/ FetchAllRemoteBranches
    \/ GetExistingBranches
    \/ GetExistingPullRequests
    \/ SkipAssignment
    \/ QueueExistingBranch
    \/ CreateBranch
    \/ CreateReadme
    \/ EndLocalPhase
    \/ PushBranchesToRemote
    \/ CreatePullRequest
    \/ EndPullRequestPhase
    \/ SetOutputs

SpecRace == InitRace /\ [][NextRace]_vars

\* ---------------------------------------------------------------- counting
\* the invocations of op with branch name n in this run
CallsFor(op, n) == {k \in 1..Len(calls) : calls[k].op = op /\ calls[k].branch = n}

\* the invocations of create_pull_request(p, n) in this run
PRCallsFor(p, n) ==
    {k \in CallsFor("create_pull_request", n) : calls[k].path = p}

\* the branch name of every path
BranchNameOf == [p \in AllPaths |-> sanitize_branch_name(p)]

\* the entries of the discovered list whose branch name is n
EntriesNamed(n) ==
    {k \in 1..Len(assignments) : BranchNameOf[assignments[k]] = n}

\* the entries of the discovered list that are the path p
EntriesOf(p) == {k \in 1..Len(assignments) : assignments[k] = p}

\* process_assignments has returned
Returned == pc \in {"set_outputs", "done"}

\* the commands that create something: a branch, a file, a commit, a push,
\* a pull request
CreatingCommands ==
    {"git checkout -b", "mkdir -p", "write new README.md",
     "write augmented README.md", "git add",
     "git commit -m Add README for assignment <path>",
     "git commit -m Augment README for assignment <path>",
     "git push --all origin", "api create_pull"}

\* the entries of cmd_log that ran a command of the set cmds
Ran(cmds) == {k \in 1..Len(cmd_log) : cmd_log[k].cmd \in cmds}

\* the entries of cmd_log whose command failed
Failed == {k \in 1..Len(cmd_log) : ~cmd_log[k].ok}

\* ------------------------------------------------------------------ claims
\* C1: an assignment whose branch name is a key of the PR-history map, in
\* whatever state and whether or not its branch exists, gets neither a
\* create_branch nor a create_pull_request call.
C1_NoCallWithPRHistory ==
    \A n \in DOMAIN existing_prs :
        CallsFor("create_branch", n) = {} /\ CallsFor("create_pull_request", n) = {}

\* a live run has ended normally; it created something for one assignment and
\* left alone another one whose pull request was merged and whose branch is gone
C1_Witness ==
    /\ pc = "done"
    /\ ~dry_run
    /\ created_pull_requests # <<>>
    /\ \E k \in 1..Len(assignments) :
          LET n == BranchNameOf[assignments[k]]
          IN  /\ n \in DOMAIN existing_prs
              /\ remote_prs[n] = "merged"
              /\ n \notin existing_branches

\* C2: every entry of the discovered list whose branch name is in neither the
\* branch snapshot nor the PR-history map gets at most one create_branch and at
\* most one create_pull_request call, and exactly one create_branch call once
\* process_assignments has returned.
C2_NewAssignmentCreatedOnce ==
    \A n \in Names :
        (n \notin existing_branches /\ n \notin DOMAIN existing_prs) =>
            /\ Cardinality(CallsFor("create_branch", n)) <= Cardinality(EntriesNamed(n))
            /\ \A p \in RunPaths :
                  Cardinality(PRCallsFor(p, n)) <=
                      (IF BranchNameOf[p] = n
                       THEN Cardinality(EntriesOf(p)) ELSE 0)
            /\ Returned =>
                  Cardinality(CallsFor("create_branch", n)) = Cardinality(EntriesNamed(n))

\* a live run has ended normally after creating the branches of two new
\* assignments
C2_Witness ==
    /\ pc = "done"
    /\ ~dry_run
    /\ Len(created_branches) = 2
    /\ Len(created_pull_requests) = 2
    /\ \A n \in Range(created_branches) :
          n \notin existing_branches /\ n \notin DOMAIN existing_prs

C4_BranchCreatedOnlyIfNew ==
    [][pc = "loop" =>
          \A n \in local_branches' \ local_branches :
              /\ n \notin existing_branches
              /\ n \notin remote_branches
              /\ n \notin Range(created_branches)
              /\ remote_prs[n] = NoPR]_vars

\* a live run created the branch of the first of two entries with one branch
\* name, and ended in git's refusal to create that branch again
C4_Witness ==
    /\ ~dry_run
    /\ pc = "exited"
    /\ Len(assignments) = 2
    /\ BranchNameOf[assignments[1]] = BranchNameOf[assignments[2]]
    /\ assignments[1] # assignments[2]
    /\ created_branches = <<BranchNameOf[assignments[1]]>>
    /\ Cardinality(CallsFor("create_branch", BranchNameOf[assignments[1]])) = 2
    /\ cmd_log[Len(cmd_log)] =
          Executed(Command("git checkout -b", BranchNameOf[assignments[1]]), FALSE)

\* C5: create_pull_request is invoked for head n only when no pull request
\* with head n exists: none in the PR history read from the remote, and none
\* created earlier in the same run.
C5_OnePRCallPerHead ==
    \A k \in 1..Len(calls) :
        calls[k].op = "create_pull_request" =>
            /\ calls[k].branch \notin DOMAIN existing_prs
            /\ \A m \in 1..(k - 1) :
                  ~(calls[m].op = "create_pull_request"
                    /\ calls[m].branch = calls[k].branch)

\* C6: when a branch exists, has no PR history and is no commit ahead of the
\* default branch, the run makes no create_pull_request call for it.
C6_NoPRWithoutChanges ==
    \A n \in Names :
        (n \in existing_branches /\ n \notin DOMAIN existing_prs
         /\ ~has_branch_changes(n)) =>
            CallsFor("create_pull_request", n) = {}

\* the operations that create: a branch, a README commit, a push, a pull request
CreatingOps ==
    {"create_branch", "create_readme", "push_branches_to_remote",
     "create_pull_request"}

\* the operations of phases 0 and 1: the fetch and the two state reads
ReadOps ==
    {"fetch_all_remote_branches", "get_existing_branches",
     "get_existing_pull_requests"}

\* the operations invoked so far in this run
OpsCalled == {calls[k].op : k \in 1..Len(calls)}

\* C7: a live run that follows a live run ended with status 0, against the
\* remote that run left, creates no branch, writes no file, makes no commit,
\* pushes nothing and creates no pull request.
C7_SecondRunCreatesNothing ==
    (run > 1 /\ ~dry_run /\ prev_run.exit = "0") =>
        /\ OpsCalled \cap CreatingOps = {}
        /\ Ran(CreatingCommands) = {}
        /\ created_branches = <<>>
        /\ created_pull_requests = <<>>
        /\ pending_pushes = <<>>

\* the second of two live runs has ended normally; the first one had created
\* two branches and two pull requests
C7_Witness ==
    /\ run = 2
    /\ ~dry_run
    /\ pc = "done"
    /\ prev_run.exit = "0"
    /\ Len(prev_run.branches) = 2
    /\ Len(prev_run.prs) = 2
    /\ \A n \in Range(prev_run.branches) : n \in DOMAIN existing_prs

\* C8: with DRY_RUN a run executes no subprocess, no API call and no file
\* write, changes neither the local repository nor the remote, and every
\* operation succeeds: the run never exits with status 1 and, at its end,
\* every discovered entry has its branch and its pull request recorded.
C8_DryRunExecutesNothing ==
    /\ [](dry_run =>
            /\ cmd_log = <<>>
            /\ local_branches = {default_branch}
            /\ current_branch = default_branch
            /\ ConfigOk => (pc # "exited" /\ exit_code # "1")
            /\ pc = "done" =>
                  /\ Len(created_branches) = Len(assignments)
                  /\ Len(created_pull_requests) = Len(assignments))
    /\ [][dry_run => UNCHANGED remoteVars]_vars

\* a dry run has ended after going through create_branch, create_readme, the
\* push and create_pull_request for two entries
C8_Witness ==
    /\ dry_run
    /\ pc = "done"
    /\ Len(assignments) = 2
    /\ CreatingOps \subseteq OpsCalled
    /\ created_pull_requests = <<<<"#", "1">>, <<"#", "2">>>>

\* C9: when a command of the fetch, of the branch listing or of the
\* pull-request listing fails, the process has exited with status 1, the
\* failed command is the last thing the run executed and was executed once,
\* each read was invoked at most once, and the run has created nothing.
C9_ReadFailureIsFatal ==
    (Failed # {} /\ OpsCalled \subseteq ReadOps) =>
        /\ pc = "exited"
        /\ exit_code = "1"
        /\ Failed = {Len(cmd_log)}
        /\ Cardinality({k \in 1..Len(cmd_log) :
                          /\ cmd_log[k].cmd = cmd_log[Len(cmd_log)].cmd
                          /\ cmd_log[k].arg = cmd_log[Len(cmd_log)].arg}) = 1
        /\ Len(calls) = Cardinality(OpsCalled)
        /\ Ran(CreatingCommands) = {}
        /\ created_branches = <<>>
        /\ created_pull_requests = <<>>
        /\ branches_to_process = <<>>

\* a live run with two assignments has exited because the listing of the
\* pull requests failed
C9_Witness ==
    /\ ~dry_run
    /\ pc = "exited"
    /\ Len(assignments) = 2
    /\ calls # <<>>
    /\ calls[Len(calls)].op = "get_existing_pull_requests"
    /\ cmd_log[Len(cmd_log)] =
          Executed(Command("api get_pulls", <<"a", "l", "l">>), FALSE)

\* C10: in live mode, when a git command or the pull-request creation call
\* fails, the process has exited with status 1 and the failed command is the
\* last thing the run executed: nothing is processed after it.
C10_FailureIsFatal ==
    (~dry_run /\ Failed # {}) =>
        /\ pc = "exited"
        /\ exit_code = "1"
        /\ Failed = {Len(cmd_log)}

\* a live run with two new assignments has exited because the commit of the
\* first README failed; the second assignment was not touched
C10_Witness ==
    /\ ~dry_run
    /\ pc = "exited"
    /\ exit_code = "1"
    /\ Len(assignments) = 2
    /\ BranchNameOf[assignments[1]] # BranchNameOf[assignments[2]]
    /\ i = 1
    /\ calls # <<>>
    /\ cmd_log # <<>>
    /\ calls[Len(calls)].op = "create_readme"
    /\ ~cmd_log[Len(cmd_log)].ok
    /\ CallsFor("create_branch", BranchNameOf[assignments[2]]) = {}
    /\ created_pull_requests = <<>>

\* C11: the exit status is 0 exactly when the run completed, that is when
\* process_assignments returned and set_outputs ran, whatever was discovered
\* or skipped; it is 1 exactly when the process was ended by a configuration
\* error or by a failed git command or GitHub call; after either of those
\* the run never completes.
C11_ExitStatus ==
    /\ exit_code = "0" <=> pc = "done"
    /\ exit_code = "1" <=> pc = "exited"
    /\ pc = "done" => (ConfigOk /\ Failed = {})
    /\ pc = "exited" => (~ConfigOk \/ Failed # {})
    /\ (~ConfigOk \/ Failed # {}) => pc \in {"init", "exited"}

\* a live run has ended with status 0 after skipping both of its two
\* assignments
C11_Witness ==
    /\ ~dry_run
    /\ pc = "done"
    /\ exit_code = "0"
    /\ Len(assignments) = 2
    /\ OpsCalled = ReadOps
    /\ \A k \in 1..2 : BranchNameOf[assignments[k]] \in DOMAIN existing_prs

\* C12: when GITHUB_TOKEN or GITHUB_REPOSITORY is not set or is empty, the
\* run never gets past construction: no API call, git command or file write
\* is executed, no operation of the class is invoked, nothing is scanned or
\* written, and the process ends with status 1.
C12_ConfigErrorBeforeAnyWork ==
    (\E v \in {github_token, repository_name} : ~v.set \/ v.value = <<>>) =>
        /\ pc \in {"init", "exited"}
        /\ pc = "exited" => exit_code = "1"
        /\ cmd_log = <<>>
        /\ calls = <<>>
        /\ outputs = <<>>
        /\ local_branches = {default_branch}
        /\ created_branches = <<>>
        /\ created_pull_requests = <<>>

\* a live process with a token but an empty GITHUB_REPOSITORY, and with
\* assignments to find, has ended at construction
C12_Witness ==
    /\ ~dry_run
    /\ github_token = [set |-> TRUE, value |-> <<"x">>]
    /\ repository_name = [set |-> TRUE, value |-> <<>>]
    /\ assignments # <<>>
    /\ pc = "exited"
    /\ exit_code = "1"

\* the entries of cmd_log, in order, that ran the command cmd successfully
Succeeded(cmd) ==
    SelectSeq(cmd_log, LAMBDA e : e.cmd = cmd /\ e.ok)

\* C13: at normal completion created_branches is the sequence of the names
\* of the branches created in this run, in creation order, and
\* created_pull_requests the sequence of the identifiers '#<number>' of the
\* pull requests created in this run, in creation order; when GITHUB_OUTPUT
\* is set the two lines set_outputs appended carry exactly these lists as
\* JSON arrays.
C13_OutputsAreWhatWasCreated ==
    pc = "done" =>
        /\ ~dry_run =>
              LET branches == Succeeded("git checkout -b")
                  pulls == Succeeded("api create_pull")
              IN  /\ created_branches = [k \in 1..Len(branches) |-> branches[k].arg]
                  /\ Len(created_pull_requests) = Len(pulls)
                  /\ \A k \in 1..Len(pulls) :
                        created_pull_requests[k] =
                            PrId(pr_count - Len(pulls) + k)
        /\ created_branches =
              LET made == SelectSeq(calls, LAMBDA c : c.op = "create_branch")
              IN  [k \in 1..Len(made) |-> made[k].branch]
        /\ \A k \in 1..Len(created_pull_requests) :
              /\ Len(created_pull_requests[k]) >= 2
              /\ created_pull_requests[k][1] = "#"
              /\ \A m \in 2..Len(created_pull_requests[k]) :
                    created_pull_requests[k][m] \in Range(DIGITS)
        /\ outputs # <<>> =>
              /\ Len(outputs) = 2
              /\ outputs[1] = CreatedBranchesKey \o <<"[">>
                    \o Join([k \in 1..Len(created_branches) |->
                               <<"\"">> \o created_branches[k] \o <<"\"">>],
                            <<",", " ">>)
                    \o <<"]", "\n">>
              /\ outputs[2] = CreatedPullRequestsKey \o <<"[">>
                    \o Join([k \in 1..Len(created_pull_requests) |->
                               <<"\"">> \o created_pull_requests[k] \o <<"\"">>],
                            <<",", " ">>)
                    \o <<"]", "\n">>

\* a live run has completed after creating two different branches and two
\* pull requests and has written its outputs
C13_Witness ==
    /\ ~dry_run
    /\ pc = "done"
    /\ Len(created_branches) = 2
    /\ created_branches[1] # created_branches[2]
    /\ created_pull_requests = <<PrId(1), PrId(2)>>
    /\ Len(outputs) = 2

\* C16: sanitize_branch_name is idempotent: applied to its own result it
\* returns that result, for every path over letters of both cases, digits,
\* whitespace, '/' and '-'.
C16_SanitizeIdempotent ==
    Len(names_out) = 2 => names_out[2] = names_out[1]

\* the name of ' B/-' was sanitized again
C16_Witness ==
    /\ path_in = <<" ", "B", "/", "-">>
    /\ names_out = <<<<"b">>, <<"b">>>>

\* C17: the result of sanitize_branch_name has no two consecutive hyphens,
\* neither starts nor ends with a hyphen, and contains no uppercase letter
\* and no '/'.
C17_SanitizedNameIsClean ==
    \A n \in 1..Len(names_out) :
        LET name == names_out[n]
        IN  /\ \A k \in 1..Len(name) :
                  /\ name[k] # "/"
                  /\ name[k] \notin Range(UPPER)
                  /\ (k < Len(name) /\ name[k] = "-") => name[k + 1] # "-"
            /\ name # <<>> => (name[1] # "-" /\ name[Len(name)] # "-")

\* 'B/-a', with an uppercase letter, a slash and what becomes a hyphen run,
\* was sanitized to 'b-a'
C17_Witness ==
    /\ path_in = <<"B", "/", "-", "a">>
    /\ names_out = <<<<"b", "-", "a">>>>

\* C18: sanitize_branch_name is, in this order: trim the surrounding
\* whitespace, replace each whitespace run by one hyphen, replace every '/'
\* by '-', collapse the hyphen runs, lowercase, trim the leading and trailing
\* hyphens; the four examples give 'module-4-lab-assignment',
\* 'spaced-assignment', 'complex-path-with-spaces' and 'multiple-hyphens'.
C18_SanitizeIsTheComposition ==
    names_out # <<>> =>
        /\ names_out[1] =
              Strip(Lower(SubRuns(ReplaceChar(SubRuns(Strip(path_in, WS), WS, "-"),
                                              "/", "-"),
                                  {"-"}, "-")),
                    {"-"})
        /\ path_in = ExampleModule => names_out[1] =
              <<"m", "o", "d", "u", "l", "e", "-", "4", "-", "l", "a", "b",
                "-", "a", "s", "s", "i", "g", "n", "m", "e", "n", "t">>
        /\ path_in = ExampleSpaced => names_out[1] =
              <<"s", "p", "a", "c", "e", "d", "-", "a", "s", "s", "i", "g",
                "n", "m", "e", "n", "t">>
        /\ path_in = ExampleComplex => names_out[1] =
              <<"c", "o", "m", "p", "l", "e", "x", "-", "p", "a", "t", "h",
                "-", "w", "i", "t", "h", "-", "s", "p", "a", "c", "e", "s">>
        /\ path_in = ExampleHyphens => names_out[1] =
              <<"m", "u", "l", "t", "i", "p", "l", "e", "-", "h", "y", "p",
                "h", "e", "n", "s">>

\* 'Complex Path / With Spaces' was sanitized
C18_Witness ==
    /\ path_in = ExampleComplex
    /\ Len(names_out) = 1
    /\ Len(names_out[1]) = 24

\* C15: when create_readme augments an existing README.md, the original
\* content, whatever it ends with, is a prefix of the content written.
C15_OriginalIsPrefix ==
    (existing_content.exists /\ written_content # <<>>) =>
        /\ Len(existing_content.text) <= Len(written_content)
        /\ SubSeq(written_content, 1, Len(existing_content.text)) =
              existing_content.text

RECURSIVE SplitPath(_)
\* the directory a relative path names: path.split('/')
SplitPath(path) ==
    IF "/" \notin Range(path) THEN <<path>>
    ELSE LET k == CHOOSE m \in 1..Len(path) :
                      path[m] = "/" /\ \A n \in 1..(m - 1) : path[n] # "/"
         IN  <<SubSeq(path, 1, k - 1)>> \o SplitPath(SubSeq(path, k + 1, Len(path)))

\* the directory has a proper ancestor whose name matches the root pattern
BeneathRoot(dir) == \E m \in 1..(Len(dir) - 1) : dir[m] \in root_pattern

C20_EmittedIffBeneathRootAndMatching ==
    found.done =>
        Range(found.paths) =
            {RelativePath(d) :
                d \in {e \in workspace_tree :
                          Basename(e) \in assignment_pattern /\ BeneathRoot(e)}}

\* under the default patterns the scan of assignments/week-3/assignment-3
\* returned that one path
C20_Witness ==
    /\ found.done
    /\ root_pattern = {DirAssignments}
    /\ assignment_pattern = {DirAssignment3}
    /\ workspace_tree = {<<DirAssignments>>, <<DirAssignments, DirWeek3>>,
                         <<DirAssignments, DirWeek3, DirAssignment3>>}
    /\ found.paths = <<
          <<"a", "s", "s", "i", "g", "n", "m", "e", "n", "t", "s", "/", "w",
            "e", "e", "k", "-", "3", "/", "a", "s", "s", "i", "g", "n", "m",
            "e", "n", "t", "-", "3">>>>

\* the run is a live run over the tree assignments/assignment-1/ that found
\* no branch and no pull request and has completed
ScenarioOneCompleted ==
    /\ assignments \in ScenarioLists
    /\ ~dry_run
    /\ pc = "done"
    /\ existing_branches \subseteq {default_branch}
    /\ DOMAIN existing_prs = {}

\* C14 as stated: for the tree assignments/assignment-1/ with no branch and
\* no pull request, the run creates the one branch 'assignment-1' and opens
\* the one pull request titled 'Assignment: Assignment-1'.
C14_BranchNamedAfterDirectory ==
    ScenarioOneCompleted =>
        /\ created_branches = <<
              <<"a", "s", "s", "i", "g", "n", "m", "e", "n", "t", "-", "1">>>>
        /\ LET pulls == Succeeded("api create_pull")
           IN  /\ Len(pulls) = 1
               /\ pulls[1].arg.title =
                      <<"A", "s", "s", "i", "g", "n", "m", "e", "n", "t",
                        ":", " ", "A", "s", "s", "i", "g", "n", "m", "e",
                        "n", "t", "-", "1">>

\* C14 amended: for that tree the run discovers the one path
\* assignments/assignment-1, creates exactly one branch, named
\* 'assignments-assignment-1', writes one new README and augments none, and
\* opens exactly one pull request, from that branch into the default branch,
\* whose title is 'Assignment: Assignments - Assignment-1'.
C14_BranchNamedAfterPath ==
    ScenarioOneCompleted =>
        /\ assignments = <<
              <<"a", "s", "s", "i", "g", "n", "m", "e", "n", "t", "s", "/",
                "a", "s", "s", "i", "g", "n", "m", "e", "n", "t", "-", "1">>>>
        /\ created_branches = <<
              <<"a", "s", "s", "i", "g", "n", "m", "e", "n", "t", "s", "-",
                "a", "s", "s", "i", "g", "n", "m", "e", "n", "t", "-", "1">>>>
        /\ Succeeded("git checkout -b") =
              <<Executed(Command("git checkout -b", created_branches[1]), TRUE)>>
        /\ Succeeded("write new README.md") =
              <<Executed(Command("write new README.md", assignments[1]), TRUE)>>
        /\ Succeeded("write augmented README.md") = <<>>
        /\ LET pulls == Succeeded("api create_pull")
           IN  /\ Len(pulls) = 1
               /\ pulls[1].arg.head = created_branches[1]
               /\ pulls[1].arg.base = default_branch
               /\ pulls[1].arg.title =
                      <<"A", "s", "s", "i", "g", "n", "m", "e", "n", "t",
                        ":", " ", "A", "s", "s", "i", "g", "n", "m", "e",
                        "n", "t", "s", " ", "-", " ", "A", "s", "s", "i",
                        "g", "n", "m", "e", "n", "t", "-", "1">>
        /\ created_pull_requests = <<PrId(pr_count)>>

\* the live run over the tree assignments/assignment-1/ has completed in a
\* repository that had no branch and no pull request
C14_Witness ==
    /\ ScenarioOneCompleted
    /\ run = 1
    /\ created_pull_requests = <<PrId(1)>>
    /\ remote_prs[created_branches[1]] = "open"


\* no directory of the workspace that matches the root pattern has a
\* subdirectory (in particular: no directory matches the root pattern)
NoRootHasSubdirectories ==
    \A d \in workspace_tree :
        Basename(d) \in root_pattern =>
            ~\E e \in workspace_tree :
                Len(e) > Len(d) /\ SubSeq(e, 1, Len(d)) = d

\* C21: when no directory matches the root pattern, or no root-matching
\* directory has a subdirectory, find_assignments returns the empty list and
\* the run neither fails nor executes or creates anything: from the scan it
\* goes to set_outputs and ends with status 0.
C21_EmptyScanCompletes ==
    /\ [](found.done /\ NoRootHasSubdirectories =>
            /\ found.paths = <<>>
            /\ assignments = <<>>
            /\ pc \in {"start", "set_outputs", "done"}
            /\ exit_code # "1"
            /\ calls = <<>>
            /\ cmd_log = <<>>
            /\ created_branches = <<>>
            /\ created_pull_requests = <<>>)
    /\ [][found.done /\ NoRootHasSubdirectories =>
            /\ pc = "start" => pc' = "set_outputs"
            /\ pc = "set_outputs" => pc' = "done" /\ exit_code' = "0"]_vars

\* the workspace holds a root-matching directory without subdirectories and
\* an assignment-matching directory outside it; the run has completed
C21_Witness ==
    /\ found.done
    /\ NoRootHasSubdirectories
    /\ \E d \in workspace_tree : Basename(d) \in root_pattern
    /\ \E d \in workspace_tree : Basename(d) \in assignment_pattern
    /\ pc = "done"
    /\ exit_code = "0"


\* push_branches_to_remote has been invoked in this run
PushStepReached == \E k \in 1..Len(calls) : calls[k].op = "push_branches_to_remote"

CallSeq(ops) == SelectSeq(calls, LAMBDA c : c.op \in ops)

\* the row of the decision table for the k-th discovered assignment, from
\* the snapshot of the run
EntryDecision(k) ==
    Decision(BranchNameOf[assignments[k]] \in existing_branches,
             BranchNameOf[assignments[k]] \in DOMAIN existing_prs)

\* the indices of the discovered assignments whose row is in rows, in
\* discovery order
EntriesDeciding(rows) ==
    SelectSeq([k \in 1..Len(assignments) |-> k],
              LAMBDA k : EntryDecision(k) \in rows)

\* C23 as stated: each assignment is processed to completion, its
\* pull-request creation included, before any operation for the next one:
\* between two branch creations lies the pull-request creation of the first.
C23_EachToCompletion ==
    \A k, m \in 1..Len(calls) :
        (k < m /\ calls[k].op = "create_branch" /\ calls[m].op = "create_branch")
            => \E q \in k..m : /\ calls[q].op = "create_pull_request"
                               /\ calls[q].branch = calls[k].branch

\* C23 amended: assignments are processed one at a time in discovery order
\* within each phase. In the local phase the branch creation of an assignment
\* is followed at once by its README commit, and the creations follow the
\* discovery order; every pull-request creation comes after the push step and
\* after every branch creation and README commit of the run, and the pull
\* requests are created one at a time in the order of the discovered list.
C23_OneAtATimeWithinPhases ==
    LET cb == CallSeq({"create_branch"})
        cr == CallSeq({"create_readme"})
        pr == CallSeq({"create_pull_request"})
        new == EntriesDeciding({"create"})
        queued == EntriesDeciding({"create", "pr_only"})
    IN  /\ Len(cb) <= Len(new)
        /\ \A k \in 1..Len(cb) : cb[k].branch = BranchNameOf[assignments[new[k]]]
        /\ Len(cr) <= Len(cb)
        /\ \A k \in 1..Len(cr) : /\ cr[k].path = assignments[new[k]]
                                 /\ cr[k].branch = cb[k].branch
        /\ \A m \in 1..Len(calls) :
              calls[m].op = "create_readme" =>
                  /\ m > 1
                  /\ calls[m - 1].op = "create_branch"
                  /\ calls[m - 1].branch = calls[m].branch
        /\ \A m \in 1..(Len(calls) - 1) :
              calls[m].op = "create_branch" => calls[m + 1].op = "create_readme"
        /\ \A m \in 1..Len(calls) :
              calls[m].op = "create_pull_request" =>
                  /\ \E q \in 1..(m - 1) : calls[q].op = "push_branches_to_remote"
                  /\ \A q \in m..Len(calls) : calls[q].op = "create_pull_request"
        /\ Len(branches_to_process) <= Len(queued)
        /\ \A k \in 1..Len(branches_to_process) :
              branches_to_process[k] =
                  <<assignments[queued[k]], BranchNameOf[assignments[queued[k]]]>>
        /\ Len(pr) <= Len(branches_to_process)
        /\ \A k \in 1..Len(pr) : /\ pr[k].path = branches_to_process[k][1]
                                 /\ pr[k].branch = branches_to_process[k][2]

\* a live run over two new assignments has completed: both branches were
\* created and committed, then pushed, then both pull requests were opened
C23_Witness ==
    /\ pc = "done"
    /\ ~dry_run
    /\ Len(assignments) = 2
    /\ [k \in 1..Len(calls) |-> calls[k].op] =
          <<"fetch_all_remote_branches", "get_existing_branches",
            "get_existing_pull_requests", "create_branch", "create_readme",
            "create_branch", "create_readme", "push_branches_to_remote",
            "create_pull_request", "create_pull_request">>
    /\ calls[4].branch = BranchNameOf[assignments[1]]
    /\ calls[6].branch = BranchNameOf[assignments[2]]
    /\ calls[9].branch = BranchNameOf[assignments[1]]
    /\ calls[10].branch = BranchNameOf[assignments[2]]


\* the positions in calls of the invocations of op
CallPositions(op) == {k \in 1..Len(calls) : calls[k].op = op}

\* C24: the branch set and the PR-history map are each read at most once in
\* a run, and exactly once, right after the fetch and before any assignment
\* is processed, in a run that gets to process an assignment; the snapshot
\* does not change afterwards, and every decision of the run is the row of
\* the table for the snapshot: every assignment without branch and history
\* in the snapshot gets its create_branch call, and every queued assignment
\* its create_pull_request call, whatever the run created before.
C24_SnapshotReadOnce ==
    /\ [](/\ CallPositions("get_existing_branches") \subseteq {2}
          /\ CallPositions("get_existing_pull_requests") \subseteq {3}
          /\ Cardinality(Ran({"git branch"})) <= 1
          /\ Cardinality(Ran({"api get_pulls"})) <= 1
          /\ pc \in {"loop", "readme", "push", "prs"} =>
                /\ Len(calls) >= 3
                /\ calls[1].op = "fetch_all_remote_branches"
                /\ calls[2].op = "get_existing_branches"
                /\ calls[3].op = "get_existing_pull_requests"
                /\ ~dry_run => /\ Cardinality(Ran({"git branch"})) = 1
                               /\ Cardinality(Ran({"api get_pulls"})) = 1
          /\ (pc \in {"push", "prs"} \/ (pc = "loop" /\ i > Len(assignments))) =>
                /\ Len(CallSeq({"create_branch"})) = Len(EntriesDeciding({"create"}))
                /\ Len(branches_to_process) =
                      Len(EntriesDeciding({"create", "pr_only"}))
          /\ (pc = "prs" /\ j > Len(branches_to_process)) =>
                Len(CallSeq({"create_pull_request"})) = Len(branches_to_process))
    /\ [][(pc \in {"loop", "readme", "push", "prs", "set_outputs"})
             => UNCHANGED snapshotVars]_vars

\* a live run found neither branch nor pull request, created the branch of
\* its first assignment and invoked create_branch again for the second, which
\* has the same branch name, although the branch now exists
C24_Witness ==
    /\ ~dry_run
    /\ Len(assignments) = 2
    /\ BranchNameOf[assignments[1]] = BranchNameOf[assignments[2]]
    /\ BranchNameOf[assignments[1]] \in local_branches
    /\ BranchNameOf[assignments[1]] \notin existing_branches
    /\ Cardinality(CallsFor("create_branch", BranchNameOf[assignments[1]])) = 2
    /\ Cardinality(Ran({"git branch"})) = 1
    /\ Cardinality(Ran({"api get_pulls"})) = 1


\* the two runs
Runs == {Me, other}

\* the row of the decision table of run P for the k-th discovered
\* assignment, from the snapshot of P
RunDecision(P, k) ==
    Decision(BranchNameOf[assignments[k]] \in P.existing_branches,
             BranchNameOf[assignments[k]] \in DOMAIN P.existing_prs)

\* the positions in the calls of run P of the invocations of op
RunCalls(P, op) == {k \in 1..Len(P.calls) : P.calls[k].op = op}

\* run P executed the command cmd with success
RunRan(P, cmd) ==
    \E k \in 1..Len(P.cmd_log) : P.cmd_log[k].cmd = cmd /\ P.cmd_log[k].ok

\* C25: of two runs interleaved against one remote, each acts on its own
\* snapshot alone and nothing in the tool detects the other: a run that is
\* past its local phase has invoked create_branch for every assignment that
\* its own snapshot shows without branch and pull request, a run that is past
\* its pull-request phase has invoked create_pull_request for every queued
\* assignment, and a run ends early only because a command it ran failed.
C25_EachRunActsOnItsOwnSnapshot ==
    \A P \in Runs :
        /\ P.pc \in {"push", "prs", "set_outputs", "done"} =>
              Cardinality(RunCalls(P, "create_branch")) =
                  Cardinality({k \in 1..Len(assignments) :
                                  RunDecision(P, k) = "create"})
        /\ P.pc \in {"set_outputs", "done"} =>
              Cardinality(RunCalls(P, "create_pull_request")) =
                  Len(P.branches_to_process)
        /\ P.pc = "exited" =>
              /\ P.cmd_log # <<>>
              /\ ~P.cmd_log[Len(P.cmd_log)].ok

\* both runs took their snapshot while the remote had neither the branch nor
\* a pull request, both created the same branch, both pushed, and both
\* requested a pull request for that head
C25_Witness ==
    \E n \in Names :
        /\ remote_prs[n] = "open"
        /\ \A P \in Runs :
              /\ n \notin P.existing_branches
              /\ n \notin DOMAIN P.existing_prs
              /\ P.created_branches = <<n>>
              /\ RunRan(P, "git checkout -b")
              /\ RunRan(P, "git push --all origin")
              /\ \E k \in RunCalls(P, "create_pull_request") : P.calls[k].branch = n


\* C26: within a run the fetch precedes the state reads; every create_branch
\* and create_readme precedes the push step; 'git push --all origin' is
\* executed at most once and only when a branch was created; every
\* create_pull_request follows the push step, and every pull request
\* requested from GitHub has a head branch that is on the remote.
C26_PhaseOrdering ==
    /\ \A k \in CallPositions("get_existing_branches")
             \cup CallPositions("get_existing_pull_requests") :
          \E q \in 1..(k - 1) : calls[q].op = "fetch_all_remote_branches"
    /\ Cardinality(CallPositions("fetch_all_remote_branches")) <= 1
    /\ Cardinality(CallPositions("push_branches_to_remote")) <= 1
    /\ \A m \in CallPositions("push_branches_to_remote") :
          \A k \in CallPositions("create_branch") \cup CallPositions("create_readme") :
              k < m
    /\ Cardinality(Ran({"git push --all origin"})) <= 1
    /\ Ran({"git push --all origin"}) # {} => created_branches # <<>>
    /\ \A m \in CallPositions("create_pull_request") :
          \E q \in 1..(m - 1) : calls[q].op = "push_branches_to_remote"
    /\ \A m \in Ran({"api create_pull"}) :
          /\ cmd_log[m].arg.head \in remote_branches
          /\ \A q \in Ran({"git push --all origin"}) : q < m /\ cmd_log[q].ok
          /\ \A q \in Ran({"git checkout -b", "git add",
                           "git commit -m Add README for assignment <path>",
                           "git commit -m Augment README for assignment <path>"}) :
                q < m

\* a live run has completed that created one branch and found another one
\* without pull request: one push, then two pull requests
C26_Witness ==
    /\ pc = "done"
    /\ ~dry_run
    /\ Len(created_branches) = 1
    /\ Len(branches_to_process) = 2
    /\ Cardinality(Ran({"git push --all origin"})) = 1
    /\ Cardinality(Ran({"api create_pull"})) = 2
    /\ \A m \in Ran({"api create_pull"}) : cmd_log[m].ok


\* C27: in a live run every created branch starts at the tip of the default
\* branch, whatever was processed before it, and once its create_readme has
\* returned it is exactly one commit ahead of the default branch, that commit
\* being the README commit of its own assignment.
C27_OneOwnCommitAhead ==
    ~dry_run =>
        /\ pc = "readme" =>
              /\ CurrentBranchName = created_branches[Len(created_branches)]
              /\ current_branch = CurrentBranchName
              /\ local_commits[CurrentBranchName] = <<>>
              /\ local_ahead[CurrentBranchName] = 0
        /\ \A k \in 1..Len(created_branches) :
              /\ created_branches[k] \in local_branches
              /\ Len(local_commits[created_branches[k]]) <= 1
              /\ local_ahead[created_branches[k]] =
                    Len(local_commits[created_branches[k]])
        /\ \A k \in 1..Len(branches_to_process) :
              branches_to_process[k][2] \in Range(created_branches) =>
                  /\ local_commits[branches_to_process[k][2]] =
                        <<branches_to_process[k][1]>>
                  /\ local_ahead[branches_to_process[k][2]] = 1

\* a live run created and committed two branches one after the other: each
\* holds the commit of its own assignment and nothing else
C27_Witness ==
    /\ ~dry_run
    /\ Len(created_branches) = 2
    /\ Len(branches_to_process) = 2
    /\ created_branches[1] # created_branches[2]
    /\ local_commits[created_branches[1]] = <<assignments[1]>>
    /\ local_commits[created_branches[2]] = <<assignments[2]>>


\* the branches other than the default one that the snapshot shows with no
\* pull request in any state
ExistingWithoutHistory ==
    {n \in Names : n \in existing_branches /\ n \notin DOMAIN existing_prs}

RootAncestors(dir) == {m \in 1..(Len(dir) - 1) : dir[m] \in root_pattern}

\* the loop of phase 2 has gone through the whole list
LocalPhaseDone ==
    \/ pc \in {"push", "prs"}
    \/ pc = "loop" /\ i > Len(assignments)
    \/ pc \in {"set_outputs", "done"} /\ calls # <<>>

\* C29: find_assignments emits a directory that matches the assignment
\* pattern once for each of its proper ancestors that matches the root
\* pattern, and emits nothing else; process_assignments handles every
\* occurrence on its own: each one whose row is "create" gets a create_branch
\* call, with the same branch name, and each one that is not skipped is queued.
C29_EmittedOncePerRootAncestor ==
    found.done =>
        /\ \A d \in workspace_tree :
              Basename(d) \in assignment_pattern =>
                  Cardinality({k \in 1..Len(found.paths) :
                                  found.paths[k] = RelativePath(d)})
                      = Cardinality(RootAncestors(d))
        /\ \A k \in 1..Len(found.paths) :
              /\ SplitPath(found.paths[k]) \in workspace_tree
              /\ Basename(SplitPath(found.paths[k])) \in assignment_pattern
        /\ assignments = found.paths
        /\ LocalPhaseDone =>
              /\ \A n \in Names :
                    Cardinality(CallsFor("create_branch", n)) =
                        Cardinality({k \in EntriesNamed(n) :
                                        EntryDecision(k) = "create"})
              /\ Len(branches_to_process) =
                    Len(EntriesDeciding({"create", "pr_only"}))

\* the directory assignment-3 lies beneath two nested directories named
\* assignments: the scan returned its path twice, and the dry run created its
\* branch twice and two pull requests
C29_Witness ==
    /\ found.done
    /\ dry_run
    /\ pc = "done"
    /\ workspace_tree = {<<DirAssignments>>, <<DirAssignments, DirAssignments>>,
                         <<DirAssignments, DirAssignments, DirAssignment3>>}
    /\ Len(assignments) = 2
    /\ assignments[1] = assignments[2]
    /\ created_branches = <<BranchNameOf[assignments[1]], BranchNameOf[assignments[1]]>>
    /\ created_pull_requests = <<PrId(1), PrId(2)>>


\* the entries of cmd_log that created a local tracking branch
TrackingCheckouts == Ran({"git checkout -b <name> origin/<name>"})

\* C30 as stated: in live mode fetch_all_remote_branches issues one
\* 'git checkout -b <name> origin/<name>' for each branch of origin other
\* than the default branch and none for the remote HEAD pointer entry, ends
\* by checking out the default branch, and the branch set read afterwards is
\* the remote branch set.
C30_TrackingBranchesOnlyForBranches ==
    (~dry_run /\ calls # <<>>) =>
        /\ \A k \in TrackingCheckouts : cmd_log[k].arg \in remote_branches
        /\ \A k, m \in TrackingCheckouts :
              cmd_log[k].arg = cmd_log[m].arg => k = m
        /\ pc = "get_branches" =>
              /\ {cmd_log[k].arg : k \in TrackingCheckouts} = remote_branches
              /\ cmd_log[Len(cmd_log)] =
                    Executed(Command("git checkout", default_branch), TRUE)
              /\ current_branch = default_branch
        /\ pc = "get_prs" =>
              existing_branches = remote_branches \cup {default_branch}



\* C31: in dry-run mode the branch snapshot and the PR-history map are empty
\* whatever the repository holds, every discovered assignment takes the row
\* "create branch, README and PR", and at completion created_branches holds
\* the branch name of every discovered assignment in discovery order and
\* created_pull_requests is "#1", "#2", ..., "#n".
C31_DryRunCreatesEveryAssignment ==
    dry_run =>
        /\ existing_branches = {}
        /\ existing_prs = <<>>
        /\ \A k \in 1..Len(assignments) : EntryDecision(k) = "create"
        /\ pc = "done" =>
              /\ created_branches =
                    [k \in 1..Len(assignments) |-> BranchNameOf[assignments[k]]]
              /\ created_pull_requests = [k \in 1..Len(assignments) |-> PrId(k)]
              /\ Len(CallSeq({"create_branch"})) = Len(assignments)
              /\ Len(CallSeq({"create_readme"})) = Len(assignments)
              /\ Len(CallSeq({"create_pull_request"})) = Len(assignments)

\* a dry run over two assignments has completed against a repository that
\* holds the branch of the first one and a merged pull request of the second
C31_Witness ==
    /\ dry_run
    /\ pc = "done"
    /\ Len(assignments) = 2
    /\ BranchNameOf[assignments[1]] # BranchNameOf[assignments[2]]
    /\ BranchNameOf[assignments[1]] \in remote_branches
    /\ remote_prs[BranchNameOf[assignments[2]]] = "merged"
    /\ Len(created_branches) = 2
    /\ created_pull_requests = <<PrId(1), PrId(2)>>



\* the snapshot of the scenario 'mixed_existing' was read for the workspace
\* assignments/assignment-1, assignments/assignment-2: the branches are the
\* default branch and assignments-assignment-1, the PR history is
\* assignments-assignment-2: open
MixedExisting ==
    /\ found.done
    /\ Range(assignments) =
          {RelativePath(<<DirAssignments, DirAssignment1>>),
           RelativePath(<<DirAssignments, DirAssignment2>>)}
    /\ pc \notin {"scan", "start", "get_branches", "get_prs"}
    /\ existing_branches =
          {default_branch,
           <<"a", "s", "s", "i", "g", "n", "m", "e", "n", "t", "s", "-",
             "a", "s", "s", "i", "g", "n", "m", "e", "n", "t", "-", "1">>}
    /\ DOMAIN existing_prs =
          {<<"a", "s", "s", "i", "g", "n", "m", "e", "n", "t", "s", "-",
             "a", "s", "s", "i", "g", "n", "m", "e", "n", "t", "-", "2">>}
    /\ \A n \in DOMAIN existing_prs : existing_prs[n] = "open"

Attempts(cmd, arg) ==
    {k \in 1..Len(cmd_log) : cmd_log[k].cmd = cmd /\ cmd_log[k].arg = arg}

\* the commands create_readme runs for an assignment path
ReadmeCommands ==
    {"mkdir -p", "write new README.md", "write augmented README.md", "git add",
     "git commit -m Add README for assignment <path>",
     "git commit -m Augment README for assignment <path>"}

\* the run has ended: in completion or in a fatal exit
Terminated == pc \in {"done", "exited"}

\* a run that has not ended has a statement to execute: the guard of one of
\* the steps holds
CanStep ==
    \/ Terminated
    \/ pc \in {"init", "get_branches", "get_prs", "push", "set_outputs"}
    \/ pc = "start"
    \/ pc = "loop" /\ i > Len(assignments)
    \/ pc = "loop" /\ i <= Len(assignments)
                   /\ CurrentDecision \in {"skip", "pr_only", "create"}
    \/ pc = "readme" /\ i <= Len(assignments)
    \/ pc = "prs"

\* C33: no operation is retried. Within one run a failed command is the last
\* thing executed; the commands of the fetch, of the two reads and of the push
\* are attempted at most once; every operation on an assignment is invoked at
\* most once per entry of the discovered list and each of its commands is
\* attempted at most once per entry. A run that has not ended has a next
\* statement, and every run terminates, in completion or in a fatal exit, when
\* each external call returns.
C33_NoRetryAndTermination ==
    /\ [](/\ Failed \subseteq {Len(cmd_log)}
          /\ \A c \in {"api get_repo", "git fetch --all", "git branch -r",
                        "git branch", "git push --all origin"} :
                Cardinality(Attempts(c, <<>>) \cup
                            Attempts(c, repository_name.value)) <= 1
          /\ Cardinality(Ran({"api get_pulls"})) <= 1
          /\ \A op \in ReadOps \cup {"push_branches_to_remote"} :
                Len(CallSeq({op})) <= 1
          /\ \A n \in Names :
                /\ Cardinality(Attempts("git checkout -b <name> origin/<name>", n)) <= 1
                /\ Cardinality(CallsFor("create_branch", n))
                      <= Cardinality(EntriesNamed(n))
                /\ Cardinality(Attempts("git checkout -b", n))
                      <= Cardinality(EntriesNamed(n))
                /\ Cardinality({k \in Ran({"api create_pull"}) :
                                  cmd_log[k].arg.head = n})
                      <= Cardinality(EntriesNamed(n))
          /\ Cardinality(Attempts("git checkout", default_branch))
                <= Len(CallSeq({"create_branch"})) + 1
          /\ \A p \in Range(assignments) :
                /\ Cardinality({k \in 1..Len(calls) :
                                  /\ calls[k].op \in {"create_readme",
                                                       "create_pull_request"}
                                  /\ calls[k].path = p})
                      <= 2 * Cardinality(EntriesOf(p))
                /\ \A op \in {"create_readme", "create_pull_request"} :
                      Cardinality({k \in 1..Len(calls) :
                                     calls[k].op = op /\ calls[k].path = p})
                          <= Cardinality(EntriesOf(p))
                /\ \A c \in ReadmeCommands :
                      Cardinality(Attempts(c, p)) <= Cardinality(EntriesOf(p))
          /\ \A k \in Ran(ReadmeCommands) : cmd_log[k].arg \in Range(assignments)
          /\ CanStep)
    /\ (~Terminated ~> Terminated)

\* a live run over two assignments attempted the commit of the second README
\* once, it failed, and the run has ended in the fatal exit
C33_Witness ==
    /\ ~dry_run
    /\ pc = "exited"
    /\ Len(assignments) = 2
    /\ i = 2
    /\ Failed = {Len(cmd_log)}
    /\ cmd_log[Len(cmd_log)].cmd \in ReadmeCommands
    /\ cmd_log[Len(cmd_log)].arg = assignments[2]
    /\ Cardinality(Attempts(cmd_log[Len(cmd_log)].cmd, assignments[2])) = 1



\* the run before this one was a live run that created branches, pushed them
\* and was then aborted, which after the push can only happen in the
\* pull-request phase; this run found those branches when it fetched, and has
\* completed without error
RecoveredAfterPush ==
    /\ run > 1
    /\ ~dry_run
    /\ prev_run.exit = "1"
    /\ prev_run.branches # <<>>
    /\ Range(prev_run.branches) \subseteq existing_branches
    /\ pc = "done"
    /\ exit_code = "0"

\* C34: when a run was aborted in the pull-request phase after its push
\* succeeded, the next error-free run creates no branch, and for every branch
\* the aborted run pushed: no create_branch call, exactly one
\* create_pull_request call when the branch had no pull request, none when it
\* had one; after that run every discovered assignment has a pull request.
C34_NextRunOpensMissingPullRequests ==
    RecoveredAfterPush =>
        /\ created_branches = <<>>
        /\ CallSeq({"create_branch", "create_readme"}) = <<>>
        /\ Ran({"git push --all origin"}) = {}
        /\ \A n \in Range(prev_run.branches) :
              /\ n \in remote_branches
              /\ Cardinality(CallsFor("create_pull_request", n)) =
                    (IF n \in DOMAIN existing_prs THEN 0 ELSE 1)
              /\ Cardinality({k \in Ran({"api create_pull"}) :
                                cmd_log[k].arg.head = n /\ cmd_log[k].ok}) =
                    (IF n \in DOMAIN existing_prs THEN 0 ELSE 1)
        /\ \A k \in 1..Len(assignments) :
              remote_prs[BranchNameOf[assignments[k]]] # NoPR

\* the first run created and pushed two branches and was aborted at the
\* second pull request; the second run opened that one pull request
C34_Witness ==
    /\ RecoveredAfterPush
    /\ Len(prev_run.branches) = 2
    /\ Len(prev_run.prs) = 1
    /\ prev_run.branches[1] \in DOMAIN existing_prs
    /\ prev_run.branches[2] \notin DOMAIN existing_prs
    /\ Len(created_pull_requests) = 1
    /\ remote_prs[prev_run.branches[2]] = "open"



\* C35: a run that ends in a fatal error never executes set_outputs: when a
\* command has failed or the process has exited with status 1, nothing was
\* appended to GITHUB_OUTPUT, whatever the run pushed or created before;
\* lines are appended only by a run that completes with status 0.
C35_NoOutputsAfterFatalError ==
    /\ (pc = "exited" \/ exit_code = "1" \/ Failed # {}) => outputs = <<>>
    /\ outputs # <<>> => (pc = "done" /\ exit_code = "0")

\* a live run pushed two branches, opened the first pull request, and was
\* aborted by the failure of the second: nothing was written
C35_Witness ==
    /\ pc = "exited"
    /\ exit_code = "1"
    /\ ~dry_run
    /\ Len(created_branches) = 2
    /\ Range(created_branches) \subseteq remote_branches
    /\ Len(created_pull_requests) = 1
    /\ remote_prs[created_branches[1]] = "open"
    /\ cmd_log[Len(cmd_log)].cmd = "api create_pull"
    /\ ~cmd_log[Len(cmd_log)].ok
    /\ outputs = <<>>


\* C36: when find_assignments returns the empty list, process_assignments
\* invokes no operation and executes no git command and no API call (the only
\* call of the run is get_repo in the constructor), changes nothing locally
\* or on the remote, and returns at once; the run then writes both output
\* arrays as empty, when GITHUB_OUTPUT is set, and ends with status 0.
C36_EmptyListDoesNothing ==
    /\ [](assignments = <<>> =>
            /\ calls = <<>>
            /\ \A k \in 1..Len(cmd_log) : cmd_log[k].cmd = "api get_repo"
            /\ Len(cmd_log) <= 1
            /\ local_branches = {default_branch}
            /\ current_branch = default_branch
            /\ existing_branches = {}
            /\ existing_prs = <<>>
            /\ branches_to_process = <<>>
            /\ created_branches = <<>>
            /\ created_pull_requests = <<>>
            /\ pending_pushes = <<>>
            /\ pc \in {"init", "start", "set_outputs", "done", "exited"}
            /\ pc = "done" =>
                  /\ exit_code = "0"
                  /\ outputs \in
                        {<<>>,
                         <<CreatedBranchesKey \o <<"[", "]", "\n">>,
                           CreatedPullRequestsKey \o <<"[", "]", "\n">>>>})
    /\ [][assignments = <<>> =>
            /\ UNCHANGED remoteVars
            /\ pc = "start" => pc' = "set_outputs"
            /\ pc = "set_outputs" => pc' = "done"]_vars

\* a live run found no assignment, wrote the two empty arrays and completed
C36_Witness ==
    /\ assignments = <<>>
    /\ ~dry_run
    /\ pc = "done"
    /\ exit_code = "0"
    /\ cmd_log = <<Executed(Command("api get_repo", repository_name.value), TRUE)>>
    /\ Len(outputs) = 2
    /\ outputs[1] = CreatedBranchesKey \o <<"[", "]", "\n">>



\* C37: in live mode create_readme commits with the message 'Add README for
\* assignment <path>' when it wrote a new README.md, and with 'Augment README
\* for assignment <path>' when it augmented a README.md that existed before
\* the call: every commit in the command log follows the write and the
\* `git add` of its path, and its message tells which write it was.
C37_CommitMessageTellsNewFromAugmented ==
    ~dry_run =>
        \A k \in Ran({"git commit -m Add README for assignment <path>",
                      "git commit -m Augment README for assignment <path>"}) :
            /\ k > 2
            /\ cmd_log[k - 1] = Executed(Command("git add", cmd_log[k].arg), TRUE)
            /\ cmd_log[k - 2].arg = cmd_log[k].arg
            /\ cmd_log[k - 2].cmd \in {"write new README.md",
                                       "write augmented README.md"}
            /\ cmd_log[k - 2].cmd = "write new README.md" =>
                  cmd_log[k].cmd = "git commit -m Add README for assignment <path>"
            /\ cmd_log[k - 2].cmd = "write augmented README.md" =>
                  cmd_log[k].cmd = "git commit -m Augment README for assignment <path>"

====
